---- MODULE Spec2Model ----
(***************************************************************************)
(* ustack: the post cache (PostDb, src/util/db.rs) and the request         *)
(* handlers that drive it (Server::handle, src/serve.rs).                  *)
(*                                                                         *)
(* Strings the code inspects character by character (post ids, file names) *)
(* are sequences of one-character strings; a path is the sequence of its   *)
(* components from the filesystem root (every path the cache builds is     *)
(* absolute, because posts_dir is canonical).                              *)
(***************************************************************************)
EXTENDS Integers, Sequences, FiniteSets, TLC

\* Option<T>: None is the empty sequence, Some(x) the one-element sequence.
None == <<>>

Some(x) == <<x>>

Last(s) == s[Len(s)]

Front(s) == SubSeq(s, 1, Len(s) - 1)

-----------------------------------------------------------------------------
(* Characters *)

UpperChars ==
    {"A","B","C","D","E","F","G","H","I","J","K","L","M",
     "N","O","P","Q","R","S","T","U","V","W","X","Y","Z"}

LowerChars ==
    {"a","b","c","d","e","f","g","h","i","j","k","l","m",
     "n","o","p","q","r","s","t","u","v","w","x","y","z"}

DigitChars == {"0","1","2","3","4","5","6","7","8","9"}

\* matches!(c, 'A'..='Z' | 'a'..='z' | '0'..='9')
IsAlnum(c) == c \in UpperChars \cup LowerChars \cup DigitChars

\* matches!(c, 'a'..='z' | 'A'..='Z' | '0'..='9' | '-')
IsIdChar(c) == IsAlnum(c) \/ c = "-"

\* The check the generator applies to a new post id.
generate_post_accepts(id) == \A i \in 1..Len(id) : IsIdChar(id[i])

-----------------------------------------------------------------------------
(* std::path, on component sequences *)

DotDot == <<".", ".">>

Dot == <<".">>

MdExt == <<"m", "d">>

RECURSIVE SplitSlash(_, _, _)
\* The '/'-separated pieces of s, empty pieces included.
SplitSlash(s, i, cur) ==
    IF i > Len(s) THEN <<cur>>
    ELSE IF s[i] = "/" THEN <<cur>> \o SplitSlash(s, i + 1, <<>>)
    ELSE SplitSlash(s, i + 1, Append(cur, s[i]))

\* Path::components of the part after the root: repeated separators, a
\* trailing separator and "." pieces are normalised away.
Components(s) ==
    SelectSeq(SplitSlash(s, 1, <<>>), LAMBDA c : c # <<>> /\ c # Dot)

HasRoot(s) == s # <<>> /\ s[1] = "/"

\* Path::join: an absolute argument replaces the base.
PathJoin(base, s) == IF HasRoot(s) THEN Components(s) ELSE base \o Components(s)

\* Path::file_name: None when the path is the root or ends in "..".
PathFileName(p) == IF p = <<>> \/ Last(p) = DotDot THEN None ELSE Some(Last(p))

RECURSIVE LastDot(_, _)
\* Index of the last '.' of name at or before i, 0 when there is none.
LastDot(name, i) ==
    IF i = 0 THEN 0 ELSE IF name[i] = "." THEN i ELSE LastDot(name, i - 1)

\* rsplit_file_at_dot: a name with no dot, or whose only dot leads it, has
\* no extension.
NameExtension(name) ==
    LET d == LastDot(name, Len(name))
    IN  IF name = DotDot \/ d <= 1 THEN None
        ELSE Some(SubSeq(name, d + 1, Len(name)))

NameStem(name) ==
    LET d == LastDot(name, Len(name))
    IN  IF name = DotDot \/ d <= 1 THEN name ELSE SubSeq(name, 1, d - 1)

\* Path::extension
PathExtension(p) ==
    IF PathFileName(p) = None THEN None ELSE NameExtension(Last(p))

\* Path::with_extension: the file name's stem followed by "." ext (by the
\* stem alone for an empty ext); a path without file name is unchanged.
PathWithExtension(p, ext) ==
    IF PathFileName(p) = None THEN p
    ELSE Append(Front(p),
                NameStem(Last(p)) \o (IF ext = <<>> THEN <<>> ELSE <<".">> \o ext))

\* Path::starts_with compares whole components.
PathStartsWith(p, base) ==
    Len(p) >= Len(base) /\ SubSeq(p, 1, Len(base)) = base

-----------------------------------------------------------------------------
(* The filesystem the server runs on *)

BlogName == <<"b","l","o","g">>

PostsName == <<"p","o","s","t","s">>

\* <root>/posts, canonical: PostDb.posts_dir
PostsDir == <<BlogName, PostsName>>

\* <root>/index.md
IndexFile == <<BlogName, <<"i","n","d","e","x",".","m","d">> >>

FileA == PostsDir \o << <<"a",".","m","d">> >>

\* a post file whose stem holds a character outside [A-Za-z0-9-]
FileAB == PostsDir \o << <<"a","_","b",".","m","d">> >>

\* posts/ln.md is a symbolic link to posts/a_b.md
LinkLn == PostsDir \o << <<"l","n",".","m","d">> >>

\* <root>/public: Server.public_dir
PublicDir == <<BlogName, <<"p","u","b","l","i","c">> >>

Dirs == {<<>>, <<BlogName>>, PostsDir, PublicDir}

\* Every path below a directory that can name a file or a symbolic link.
Nodes == {IndexFile, FileA, FileAB, LinkLn}

\* The files of public/: a stylesheet, a dotfile, two private keys, a link
\* to the stylesheet and a link to the posts directory
StyleName == <<"x",".","c","s","s">>

EnvName == <<".","e","n","v">>

PemName == <<"k",".","p","e","m">>

IdRsaName == <<"i","d","_","r","s","a">>

LinkName == <<"l">>

DirLinkName == <<"d">>

PublicNames == {StyleName, EnvName, PemName, IdRsaName, LinkName, DirLinkName}

PublicNodes == {Append(PublicDir, name) : name \in PublicNames}

(* Identifiers handed to PostDb::refresh *)

IdA == <<"a">>

IdAB == <<"a","_","b">>

IdLn == <<"l","n">>

IdUp == <<".",".","/","i","n","d","e","x">>

IdZ == <<"z","z">>

IndexId == <<"/","i","n","d","e","x">>

\* Spec refreshes a post whose file the editor rewrites; SpecPath hands the
\* path validator the identifiers a request can carry.
PostIds == {IdA}

PathIds == {IdAB, IdLn, IdUp, IdZ}

(* File contents. fm is the front matter block: "ok", "none" (no block) or *)
(* "bad" (a block the schema rejects); rev tells the texts apart.          *)

Good(r) == [fm |-> "ok", rev |-> r]

\* a post whose front matter names its creation date
Dated(r, created) == [fm |-> "ok", rev |-> r, created |-> created]

\* an index whose front matter gives url (None: gives no url)
Site(r, url) == [fm |-> "ok", rev |-> r, url |-> url]

NoFrontMatter == [fm |-> "none", rev |-> 0]

BadYaml == [fm |-> "bad", rev |-> 0]

MaxRev == 2

\* What the editor writes: a post that loses its front matter block, an
\* index whose block stops deserializing.
Contents(f) ==
    {Good(r) : r \in 1..MaxRev} \cup
    (IF f = IndexFile THEN {BadYaml} ELSE {NoFrontMatter})

Absent == [kind |-> "absent", content |-> NoFrontMatter, mtime |-> 0, target |-> <<>>]

FileOf(c, m) == [kind |-> "file", content |-> c, mtime |-> m, target |-> <<>>]

LinkTo(p) == [kind |-> "link", content |-> NoFrontMatter, mtime |-> 0, target |-> p]

-----------------------------------------------------------------------------
(* Bounds *)

\* the clock runs from 0, when the server starts, to MaxTime
MaxTime == 1

\* SystemTime::UNIX_EPOCH, long before the server starts
UnixEpoch == -3

\* the cache TTL (PostDb.ttl) is drawn from 0..MaxTtl
MaxTtl == 1

\* PostDb operations the driver of Spec starts
MaxCalls == 2

\* writes and deletions by the blog's editor
MaxEdits == 1

Tasks == {1, 2}

VARIABLES
    now,             \* SystemTime::now()
    disk,            \* Nodes -> what is there: nothing, a file, a symbolic link
    nedits,          \* edits so far
    ncalls,          \* operations started so far
    posts,           \* PostDb.posts: id -> PostEntry
    ttl,             \* PostDb.ttl
    rss_content,     \* Server.rss_content: when the feed carries the posts' content
    index_updated,   \* PostDb.index_updated
    index_metadata,  \* PostDb.index_metadata
    rss_base,        \* PostDb.rss_base
    pc,              \* per task: the filesystem access it is about to make
    stk,             \* per task: the callers to return to
    loc,             \* per task: locals of refresh / refresh_inner / refresh_index
    res,             \* per task: the Result of the operation that returned last
    call,            \* per task: the operation started last, and the db as it was then
    fslog,           \* per task: filesystem accesses of the running operation
    writer,          \* RwLock: the task holding the write guard, 0 when free
    readers          \* RwLock: the tasks holding a read guard

vars == <<now, disk, nedits, ncalls, posts, ttl, rss_content, index_updated,
          index_metadata, rss_base, pc, stk, loc, res, call, fslog, writer, readers>>

\* what the command line fixes
cfgVars == <<ttl, rss_content>>

dbVars == <<posts, index_updated, index_metadata, rss_base>>

envVars == <<now, disk, nedits>>

lockVars == <<writer, readers>>

-----------------------------------------------------------------------------
(* std::fs *)

IoOk(p) == [ok |-> TRUE, kind |-> "Ok", path |-> p]

IoErr(k) == [ok |-> FALSE, kind |-> k, path |-> <<>>]

IsFile(d, p) == p \in DOMAIN d /\ d[p].kind = "file"

IsLink(d, p) == p \in DOMAIN d /\ d[p].kind = "link"

RECURSIVE Resolve(_, _, _, _)
\* realpath: walk the components of rest from the directory cur, following
\* every symbolic link met on the way.
Resolve(d, cur, rest, fuel) ==
    IF rest = <<>> THEN IoOk(cur)
    ELSE IF Head(rest) = DotDot
         THEN Resolve(d, IF cur = <<>> THEN cur ELSE Front(cur), Tail(rest), fuel)
    ELSE LET q == Append(cur, Head(rest))
         IN  IF IsLink(d, q)
             THEN IF fuel = 0 THEN IoErr("FilesystemLoop")
                  ELSE Resolve(d, <<>>, d[q].target \o Tail(rest), fuel - 1)
             ELSE IF q \in Dirs THEN Resolve(d, q, Tail(rest), fuel)
             ELSE IF IsFile(d, q)
                  THEN IF Tail(rest) = <<>> THEN IoOk(q) ELSE IoErr("NotADirectory")
             ELSE IoErr("NotFound")

\* dunce::canonicalize
canonicalize(d, p) == Resolve(d, <<>>, p, Cardinality(Nodes))

\* Path::is_symlink
is_symlink(d, p) == IsLink(d, p)

RECURSIVE has_any_symlinks(_, _)
\* HasAnySymlinks for Path: the path or one of its ancestors is a link
has_any_symlinks(d, p) ==
    IF is_symlink(d, p) THEN TRUE
    ELSE IF p # <<>> THEN has_any_symlinks(d, Front(p))
    ELSE FALSE

RECURSIVE Lookup(_, _, _, _, _)
\* The kernel's resolution of a path as it is written: pieces are the
\* '/'-separated pieces of the text after the directory cur, empty ones
\* (a doubled or trailing '/') and "." included; they are looked up in a
\* directory only. linked tells whether a symbolic link was followed.
Lookup(d, cur, pieces, fuel, linked) ==
    IF pieces = <<>> THEN [IoOk(cur) EXCEPT !.kind = IF linked THEN "Link" ELSE "Ok"]
    ELSE IF cur \notin Dirs THEN IoErr("NotADirectory")
    ELSE IF Head(pieces) = <<>> \/ Head(pieces) = Dot
         THEN Lookup(d, cur, Tail(pieces), fuel, linked)
    ELSE IF Head(pieces) = DotDot
         THEN Lookup(d, IF cur = <<>> THEN cur ELSE Front(cur), Tail(pieces), fuel, linked)
    ELSE LET q == Append(cur, Head(pieces))
         IN  IF IsLink(d, q)
             THEN IF fuel = 0 THEN IoErr("FilesystemLoop")
                  ELSE Lookup(d, <<>>, d[q].target \o Tail(pieces), fuel - 1, TRUE)
             ELSE IF q \in Dirs \/ IsFile(d, q)
                  THEN Lookup(d, q, Tail(pieces), fuel, linked)
             ELSE IoErr("NotFound")

\* lstat of a path as written says "symbolic link": every piece but the
\* last is resolved, and the last one too when a '/' or "/." follows it
is_symlink_raw(d, base, pieces) ==
    LET dir == Lookup(d, base, Front(pieces), Cardinality(DOMAIN d), FALSE)
    IN  /\ pieces # <<>>
        /\ Last(pieces) \notin {<<>>, Dot, DotDot}
        /\ dir.ok
        /\ IsLink(d, Append(dir.path, Last(pieces)))

-----------------------------------------------------------------------------
(* PostEntry and its parsers *)

\* Parser::get_metadata / Parser::get_index_metadata: the front matter block
\* must be there and must deserialize.
get_metadata(buf) ==
    IF buf.fm = "ok"
    THEN [ok |-> TRUE, kind |-> "Ok", title |-> buf.rev,
          created |-> IF "created" \in DOMAIN buf THEN Some(buf.created) ELSE None]
    ELSE [ok |-> FALSE, kind |-> "InvalidData", title |-> 0, created |-> None]

\* Parser::generate_html
generate_html(buf) == buf.rev

\* PostEntry::parse / PostEntry::parse_index on the text read (buf) and the
\* modification time read after it (lm). src is not a field of the code's
\* PostEntry: it records the file the entry was read from.
PostEntry_parse(buf, lm, tnow, src) ==
    [updated |-> tnow, last_modified |-> lm,
     metadata |-> [title |-> get_metadata(buf).title,
                   created |-> get_metadata(buf).created],
     body |-> generate_html(buf), src |-> src]

RECURSIVE FirstColon(_, _)
\* Index of the first ':' of text at or after i, 0 when there is none.
FirstColon(text, i) ==
    IF i > Len(text) THEN 0 ELSE IF text[i] = ":" THEN i ELSE FirstColon(text, i + 1)

SpecialSchemes == {<<"h","t","t","p">>, <<"h","t","t","p","s">>}

\* Url::parse of a text without a base: the text needs a scheme; the URL
\* of a special scheme has a host and a path, the URL of another scheme has
\* a path only when a '/' follows the colon and cannot be a base otherwise.
Url_parse(text) ==
    LET c == FirstColon(text, 1)
    IN  IF c <= 1 THEN [ok |-> FALSE, url |-> <<>>]
        ELSE [ok |-> TRUE,
              url |-> [text |-> text,
                       cannot_be_a_base |->
                         /\ SubSeq(text, 1, c - 1) \notin SpecialSchemes
                         /\ ~(c < Len(text) /\ text[c + 1] = "/")]]

\* a deserializer that takes every URL that parses
deserialize_url_unchecked(text) == Url_parse(text)

\* deserialize_url, index_metadata.rs:46-58
deserialize_url(text) ==
    IF Url_parse(text).ok /\ Url_parse(text).url.cannot_be_a_base
    THEN [ok |-> FALSE, url |-> <<>>]
    ELSE Url_parse(text)

\* "https://unspecified.com"
UnspecifiedUrlText ==
    <<"h","t","t","p","s",":","/","/",
      "u","n","s","p","e","c","i","f","i","e","d",".","c","o","m">>

\* the url of the blog's index.md
SiteUrlText == <<"h","t","t","p","s",":","/","/","b">>

\* The url field of an index document: the documents written as Good(r)
\* give the blog's url.
UrlField(buf) == IF "url" \in DOMAIN buf THEN buf.url ELSE Some(SiteUrlText)

\* Parser::get_index_metadata: the block must deserialize as IndexMetadata,
\* whose url is required
get_index_metadata(buf) ==
    IF /\ get_metadata(buf).ok
       /\ UrlField(buf) # None
       /\ deserialize_url(UrlField(buf)[1]).ok
    THEN [ok |-> TRUE, kind |-> "Ok", title |-> get_metadata(buf).title,
          url |-> deserialize_url(UrlField(buf)[1]).url]
    ELSE [ok |-> FALSE, kind |-> "InvalidData", title |-> 0, url |-> <<>>]

\* IndexMetadata::default
IndexMetadataDefault == [title |-> 0, url |-> Url_parse(UnspecifiedUrlText).url]

IndexMetadataOf(buf) ==
    [title |-> get_index_metadata(buf).title, url |-> get_index_metadata(buf).url]

\* the parser refresh_inner picks for id (db.rs:293-297) takes buf
parses(id, buf) ==
    IF id = IndexId THEN get_index_metadata(buf).ok
    ELSE get_metadata(buf).ok

\* PostDb::post_url: path_segments_mut fails for a URL that cannot be a
\* base, and the expect panics
post_url(site_url, id) ==
    IF site_url.cannot_be_a_base THEN [ok |-> FALSE, url |-> <<>>]
    ELSE [ok |-> TRUE,
          url |-> [site_url EXCEPT !.text = @ \o <<"/","p","/">> \o id]]

\* quick_xml::escape::partial_escape: the text with its <, > and & written
\* as entities. The texts of the model have no letters; the escaped form of
\* a text is kept apart from the text itself.
partial_escape(text) == [escaped |-> text]

\* ChannelBuilder::default: the title is the empty text, which escapes to
\* itself
RssBaseDefault ==
    [title |-> partial_escape(0), last_build_date |-> None, ttl |-> 0, pub_date |-> None]

Max(a, b) == IF a >= b THEN a ELSE b

\* Unsigned integers beyond 2^31 are written as sequences of 16-bit
\* limbs, the most significant first: a u32 has two limbs, a u64 four.
Word == 65536

Limbs == 0..(Word - 1)

\* ttl_seconds as u64
as_u64(x) == <<0, 0, x[1], x[2]>>

\* the u32 of a number of seconds below 2^31
to_u32(n) == <<n \div Word, n % Word>>

\* the number a u64 below 2^31 stands for
to_int(x) == x[3] * Word + x[4]

\* Duration::from_secs and Duration::as_secs: a Duration holds its whole
\* seconds as a u64
Duration_from_secs(secs) == [secs |-> secs]

as_secs(d) == d.secs

\* x + k on u64 for k below 2^16: the sum modulo 2^64, and whether the true
\* sum left the 64 bits
overflowing_add(x, k) ==
    LET s4 == x[4] + k
        s3 == x[3] + s4 \div Word
        s2 == x[2] + s3 \div Word
        s1 == x[1] + s2 \div Word
    IN  [value |-> <<s1 % Word, s2 % Word, s3 % Word, s4 % Word>>,
         overflow |-> s1 \div Word > 0]

\* the same sum kept in 32 bits
overflowing_add_u32(x, k) ==
    LET s4 == x[4] + k
        s3 == x[3] + s4 \div Word
    IN  [value |-> <<0, 0, s3 % Word, s4 % Word>>,
         overflow |-> s3 \div Word > 0]

\* x / d on u64 for d below 2^15
div_u64(x, d) ==
    LET n1 == x[1]
        n2 == (n1 % d) * Word + x[2]
        n3 == (n2 % d) * Word + x[3]
        n4 == (n3 % d) * Word + x[4]
    IN  <<n1 \div d, n2 \div d, n3 \div d, n4 \div d>>

\* std::cmp::max(x, k) on u64 for k below 2^16
max_u64(x, k) ==
    IF x[1] = 0 /\ x[2] = 0 /\ x[3] = 0 /\ x[4] < k THEN <<0, 0, 0, k>> ELSE x

\* a make_rss_base whose sum is computed in the 32 bits of ttl_seconds
channel_ttl_u32(d) ==
    LET sum == overflowing_add_u32(as_secs(d), 59)
    IN  [minutes |-> max_u64(div_u64(sum.value, 60), 5), overflow |-> sum.overflow]

\* PostDb::make_rss_base, db.rs:335-337: the channel's ttl in minutes for
\* the cache TTL d, and whether the sum overflowed
channel_ttl(d) ==
    LET sum == overflowing_add(as_secs(d), 59)
    IN  [minutes |-> max_u64(div_u64(sum.value, 60), 5), overflow |-> sum.overflow]

\* PostDb::make_rss_base; the TTL is in seconds, the channel's in minutes
ttl_as_minutes(t) == to_int(channel_ttl(Duration_from_secs(as_u64(to_u32(t)))).minutes)

make_rss_base(meta, iu, t, tnow) ==
    [title |-> partial_escape(meta.title), last_build_date |-> Some(iu),
     ttl |-> ttl_as_minutes(t), pub_date |-> Some(tnow)]

-----------------------------------------------------------------------------
(* PostDb *)

\* HashMap::get as an Option
EntryOpt(ps, id) == IF id \in DOMAIN ps THEN Some(ps[id]) ELSE None

\* HashMap::insert
Insert(ps, id, e) == [k \in DOMAIN ps \cup {id} |-> IF k = id THEN e ELSE ps[k]]

\* a remove that leaves the map as it is
Remove_nothing(ps, id) == ps

\* HashMap::remove
Remove(ps, id) == [k \in DOMAIN ps \ {id} |-> ps[k]]

\* PostDb::get_random_id chooses among the ids that do not start with '/'.
get_random_ids(ps) == {id \in DOMAIN ps : id = <<>> \/ id[1] # "/"}

\* PostDb::all_posts: the entries whose id does not start with '/'
all_posts(ps) == {id \in DOMAIN ps : id = <<>> \/ id[1] # "/"}

\* Option<&DateTime> >= Option<&DateTime>: None is below every Some
OptionGe(a, b) == IF b = None THEN TRUE ELSE a # None /\ a[1] >= b[1]

\* The time cmp_published compares: the creation date of the front matter,
\* and the file's modification time when there is none
published(entry) ==
    IF entry.metadata.created # None THEN entry.metadata.created[1]
    ELSE entry.last_modified

\* Post::to_rss_item
to_rss_item(id, entry, include_content) ==
    [link |-> id, title |-> entry.metadata.title,
     pub_date |-> entry.metadata.created,
     content |-> IF include_content THEN Some(entry.body) ELSE None]

\* Iterator::take
Take(seq, n) == SubSeq(seq, 1, IF n < Len(seq) THEN n ELSE Len(seq))

\* The orders in which a HashMap's iterator can yield the ids
IterOrders(ids) ==
    {f \in [1..Cardinality(ids) -> ids] :
        \A i, j \in 1..Cardinality(ids) : i # j => f[i] # f[j]}

\* sorted_by(|a, b| b.cmp_published(a)): a stable sort of an iteration in
\* some order, so posts published at the same time come in any order
sorted_by_published(ps, ids) ==
    {f \in IterOrders(ids) :
        \A i, j \in 1..Cardinality(ids) :
            i < j => published(ps[f[i]]) >= published(ps[f[j]])}

\* a get_rss that truncates the posts before it sorts them
get_rss_take_then_sort(ps, since, include_content, max) ==
    LET selected == {id \in all_posts(ps) : OptionGe(ps[id].metadata.created, since)}
        taken == UNION {{Take(f, max)} : f \in IterOrders(selected)}
        sets == {{f[i] : i \in 1..Len(f)} : f \in taken}
    IN  UNION {{[i \in 1..Len(f) |-> to_rss_item(f[i], ps[f[i]], include_content)] :
                  f \in sorted_by_published(ps, ids)} : ids \in sets}

\* PostDb::get_rss: the item lists it can return
get_rss(ps, since, include_content, max) ==
    LET selected == {id \in all_posts(ps) : OptionGe(ps[id].metadata.created, since)}
    IN  {[i \in 1..Len(Take(f, max)) |-> to_rss_item(f[i], ps[f[i]], include_content)] :
            f \in sorted_by_published(ps, selected)}

\* The path refresh builds from an id, before it is resolved.
PostPath(id) == PathWithExtension(PathJoin(PostsDir, id), MdExt)

get_unvalidated_post_path(d, id) == canonicalize(d, PostPath(id))

valid_filename(path) ==
    /\ PathExtension(path) = Some(MdExt)
    /\ PathFileName(path) # None
    /\ Last(path) # <<>>
    /\ IsAlnum(Last(path)[1])

\* a validator that does not look at the directory of the path
valid_parent_path_anywhere(path) == TRUE

valid_parent_path(path) == PathStartsWith(path, PostsDir)

\* TRUE for Ok(()), FALSE for the InvalidData error
validate_post_path(id, path) == valid_parent_path(path) /\ valid_filename(path)

\* the first test with its comparison turned around
not_due_reversed(updated, t, tnow) == updated # None /\ updated[1] + t < tnow

\* refresh_inner's first test: the entry is not due for another check yet
not_due(updated, t, tnow) == updated # None /\ updated[1] + t >= tnow

\* refresh_inner's second test: the file has not changed since the last check
not_changed(updated, file_modified_time) ==
    updated # None /\ updated[1] >= file_modified_time

-----------------------------------------------------------------------------
(* Request headers (util/header_ext.rs, util/mod.rs). A header value the  *)
(* code splits or searches is a sequence of characters; the value of      *)
(* If-Modified-Since is the date text a client sent: its format, and the  *)
(* instant it names, in seconds.                                          *)

\* chrono::Duration::seconds(1), in the unit of the clock
OneSecond == 1

OneHour == 60 * 60 * OneSecond

\* Header value 'separators' according to RFC 2616
SEPARATORS ==
    {"(", ")", "<", ">", "@", ",", ";", ":", "\\", "\"",
     "/", "[", "]", "?", "=", "{", "}", " ", "\t"}

RECURSIVE StrSplit(_, _, _, _)
\* str::split(seps): the pieces of text between separators, empty ones too
StrSplit(text, seps, i, cur) ==
    IF i > Len(text) THEN <<cur>>
    ELSE IF text[i] \in seps THEN <<cur>> \o StrSplit(text, seps, i + 1, <<>>)
    ELSE StrSplit(text, seps, i + 1, Append(cur, text[i]))

\* str::contains(pat)
StrContains(text, pat) ==
    \E i \in 1..(Len(text) - Len(pat) + 1) : SubSeq(text, i, i + Len(pat) - 1) = pat

NoCacheToken == <<"n", "o", "-", "c", "a", "c", "h", "e">>

FeedToken == <<"f", "e", "e", "d">>

AnyToken(tokens, token) == \E i \in 1..Len(tokens) : tokens[i] = token

\* An If-Modified-Since value: a date in the RFC 2822 / HTTP form, a date
\* in another form, or bytes that are no visible ASCII text
Rfc2822(secs) == [fmt |-> "rfc2822", secs |-> secs]

Iso8601(secs) == [fmt |-> "iso8601", secs |-> secs]

OpaqueBytes == [fmt |-> "bytes", secs |-> 0]

\* HeaderValue::to_str().ok() and DateTime::parse_from_rfc2822(text).ok()
parse_from_rfc2822(value) ==
    IF value.fmt = "rfc2822" THEN Some(value.secs) ELSE None

\* DateTime::to_rfc2822 of an instant: the text of a Last-Modified header
to_rfc2822(t) == Rfc2822(t)

\* The headers of a request the handlers look at
HeaderMap(ims, cc, aim) == [ims |-> ims, cc |-> cc, aim |-> aim]

NoHeaders == HeaderMap(None, None, None)

\* HeaderExt::if_modified_since
if_modified_since(headers) ==
    IF headers.ims = None THEN None ELSE parse_from_rfc2822(headers.ims[1])

\* an evaluator without the tolerance
is_up_to_date_exact(ims, current) == current <= ims

\* IfModifiedSince::is_up_to_date
is_up_to_date(ims, current) == current <= ims + OneSecond

\* HeaderExt::cache_control, CacheControl::is_no_cache
is_no_cache(headers) ==
    /\ headers.cc # None
    /\ AnyToken(StrSplit(headers.cc[1], SEPARATORS, 1, <<>>), NoCacheToken)

\* HeaderExt::accepted_manipulations, AcceptedManipulations::includes_feed
includes_feed(headers) ==
    /\ headers.aim # None
    /\ AnyToken(StrSplit(headers.aim[1], SEPARATORS, 1, <<>>), FeedToken)

\* HeaderExt::is_cache_valid
is_cache_valid(headers, current) ==
    LET no_cache == is_no_cache(headers)
        cache_valid == /\ if_modified_since(headers) # None
                       /\ is_up_to_date(if_modified_since(headers)[1], current)
    IN  cache_valid /\ ~no_cache

\* util::cache_valid
cache_valid(headers, timestamp) ==
    LET ims == if_modified_since(headers)
        valid == ims # None /\ timestamp <= ims[1] + OneSecond
        no_cache == headers.cc # None /\ StrContains(headers.cc[1], NoCacheToken)
    IN  valid /\ ~no_cache

-----------------------------------------------------------------------------
(* Calls and returns *)

NoLoc == [id |-> <<>>, path |-> <<>>, updated |-> None, seen |-> None,
          buf |-> NoFrontMatter, todo |-> {}, content |-> None]

\* A Result: Ok or the kind of the io::Error, the place (via) that returned
\* it, and the modification time refresh_inner read at db.rs:285, if it did.
\* req is no part of the code's values: it records the request answered.
NoRes == [status |-> "none", via |-> "none", seen |-> None,
          headers |-> <<>>, body |-> <<>>, req |-> <<>>]

Result(status, via, seen) ==
    [status |-> status, via |-> via, seen |-> seen, headers |-> <<>>, body |-> <<>>,
     req |-> <<>>]

\* A value returned, or a response sent, with what it carries
Response(status, via, headers, body) ==
    [status |-> status, via |-> via, seen |-> None, headers |-> headers,
     body |-> body, req |-> <<>>]

\* The headers of a response that the handlers set
ResponseHeaders(cache_control, last_modified, location, vary) ==
    [cache_control |-> cache_control, last_modified |-> last_modified,
     location |-> location, vary |-> vary]

NoResponseHeaders == ResponseHeaders(None, None, None, None)

\* Cache-Control: [im, ]max-age=<secs>
MaxAge(im, secs) == [im |-> im, max_age |-> secs]

\* "max-age=3600"
MaxAgeStatic == 60 * 60

\* the 25 of get_rss(since, include_content, 25)
RssMaxItems == 25

\* A request: its route, the id its path names (for /p/), the headers the
\* handlers read, and whether its User-Agent is one is_stupid_bot matches
Request(route, id, headers, bot) ==
    [route |-> route, id |-> id, headers |-> headers, bot |-> bot]

\* A request that carries none of the headers the handlers read
Plain(route, id) == Request(route, id, NoHeaders, FALSE)

NoCall == [op |-> "none", id |-> <<>>, allow |-> FALSE, t0 |-> 0,
           entry0 |-> None, canon0 |-> IoErr("none"), site0 |-> <<>>,
           args |-> <<>>]

\* Post::to_post_content: the copy of an entry a handler renders from
to_post_content(id, entry) ==
    [id |-> id, body |-> entry.body, last_modified |-> entry.last_modified,
     metadata |-> entry.metadata]

\* A caller waiting for an operation to return: the function it is in, the
\* post id that function works on, and the request it serves.
RequestFrame(fn, id, req) == [fn |-> fn, id |-> id, req |-> req]

Frame(fn, id) == RequestFrame(fn, id, Plain(fn, id))

\* The routes of Server::handle that refresh the index with a scan
IndexRoutes == {"index", "rss", "archive"}

\* An Err returned to the scan loop leaves refresh_index through `?`.
Unwind(stack, r) ==
    IF stack # <<>> /\ Head(stack).fn = "scan" /\ r.status # "Ok"
    THEN Tail(stack) ELSE stack

\* The response Server::handle makes of an Err, serve.rs:197-202
InternalServerError(r) == Result("500", r.status, None)

\* a Server::handle that keeps the write guard of its refresh until the
\* response is made
Return_holding_guard(t, r) ==
    LET stack == Unwind(stk[t], r)
        fn == IF stack = <<>> THEN "none" ELSE Head(stack).fn
        id == IF fn = "post" THEN Head(stack).id ELSE IndexId
    IN  CASE fn = "none" ->
               /\ pc' = [pc EXCEPT ![t] = "idle"]
               /\ stk' = [stk EXCEPT ![t] = <<>>]
               /\ loc' = [loc EXCEPT ![t] = NoLoc]
               /\ res' = [res EXCEPT ![t] = r]
               /\ UNCHANGED lockVars
          [] fn = "scan" ->
               /\ pc' = [pc EXCEPT ![t] = "scan_next"]
               /\ stk' = [stk EXCEPT ![t] = Tail(stack)]
               /\ loc' = [loc EXCEPT ![t] = [NoLoc EXCEPT !.todo = loc[t].todo]]
               /\ UNCHANGED <<res, lockVars>>
          [] fn = "post_index" ->
               \* serve.rs:165-167: an Err of refresh_index is logged only
               /\ pc' = [pc EXCEPT ![t] = "call_refresh"]
               /\ stk' = [stk EXCEPT ![t] = <<[Head(stack) EXCEPT !.fn = "post"]>>]
               /\ loc' = [loc EXCEPT ![t] = NoLoc]
               /\ res' = [res EXCEPT ![t] = r]
               /\ UNCHANGED lockVars
          [] fn \in IndexRoutes \cup {"post"} ->
               /\ pc' = [pc EXCEPT ![t] = IF r.status = "Ok" THEN "rlock" ELSE "idle"]
               /\ stk' = [stk EXCEPT ![t] = IF r.status = "Ok" THEN stack ELSE <<>>]
               /\ loc' = [loc EXCEPT ![t] =
                            IF r.status = "Ok"
                            THEN [NoLoc EXCEPT !.content =
                                    Some(to_post_content(id, posts'[id]))]
                            ELSE NoLoc]
               /\ res' = [res EXCEPT ![t] =
                            IF r.status = "Ok" THEN r
                            ELSE [InternalServerError(r) EXCEPT !.req = Head(stack).req]]
               /\ UNCHANGED lockVars

\* The operation of task t returns r to its caller: to the driver, to the
\* scan loop of refresh_index (db.rs:177), or to Server::handle, where the
\* write guard is dropped as the block around the call ends (serve.rs:139,
\* serve.rs:174).
Return(t, r) ==
    LET stack == Unwind(stk[t], r)
        fn == IF stack = <<>> THEN "none" ELSE Head(stack).fn
        id == IF fn = "post" THEN Head(stack).id ELSE IndexId
    IN  CASE fn = "none" ->
               /\ pc' = [pc EXCEPT ![t] = "idle"]
               /\ stk' = [stk EXCEPT ![t] = <<>>]
               /\ loc' = [loc EXCEPT ![t] = NoLoc]
               /\ res' = [res EXCEPT ![t] = r]
               /\ UNCHANGED lockVars
          [] fn = "scan" ->
               /\ pc' = [pc EXCEPT ![t] = "scan_next"]
               /\ stk' = [stk EXCEPT ![t] = Tail(stack)]
               /\ loc' = [loc EXCEPT ![t] = [NoLoc EXCEPT !.todo = loc[t].todo]]
               /\ UNCHANGED <<res, lockVars>>
          [] fn = "post_index" ->
               \* serve.rs:165-167: an Err of refresh_index is logged only
               /\ pc' = [pc EXCEPT ![t] = "call_refresh"]
               /\ stk' = [stk EXCEPT ![t] = <<[Head(stack) EXCEPT !.fn = "post"]>>]
               /\ loc' = [loc EXCEPT ![t] = NoLoc]
               /\ res' = [res EXCEPT ![t] = r]
               /\ UNCHANGED lockVars
          [] fn \in IndexRoutes \cup {"post"} ->
               \* .map(|post| post.to_post_content()), serve.rs:138, 173
               /\ writer' = 0
               /\ pc' = [pc EXCEPT ![t] = IF r.status = "Ok" THEN "rlock" ELSE "idle"]
               /\ stk' = [stk EXCEPT ![t] = IF r.status = "Ok" THEN stack ELSE <<>>]
               /\ loc' = [loc EXCEPT ![t] =
                            IF r.status = "Ok"
                            THEN [NoLoc EXCEPT !.content =
                                    Some(to_post_content(id, posts'[id]))]
                            ELSE NoLoc]
               /\ res' = [res EXCEPT ![t] =
                            IF r.status = "Ok" THEN r
                            ELSE [InternalServerError(r) EXCEPT !.req = Head(stack).req]]
               /\ UNCHANGED readers

\* One more filesystem access of the running operation: what, and for which id.
Log(t, op, id) == fslog' = [fslog EXCEPT ![t] = @ \cup {<<op, id>>}]

\* refresh_inner up to File::open, entered with the resolved path
refresh_inner_enter(t, id, path) ==
    LET updated == IF id \in DOMAIN posts THEN Some(posts[id].updated) ELSE None
    IN  IF not_due(updated, ttl, now)
        THEN /\ UNCHANGED dbVars
             /\ Return(t, Result("Ok", "cached", None))
        ELSE /\ pc' = [pc EXCEPT ![t] = "open"]
             /\ loc' = [loc EXCEPT ![t] = [@ EXCEPT !.id = id, !.path = path,
                                                   !.updated = updated]]
             /\ UNCHANGED <<stk, res, lockVars, dbVars>>

\* a refresh that forgets every post when it rejects an id
refresh_enter_forgetting(t, id, log) ==
    LET r == get_unvalidated_post_path(disk, id)
    IN  /\ fslog' = [fslog EXCEPT ![t] = log \cup {<<"canonicalize", id>>}]
        /\ IF r.ok /\ validate_post_path(id, r.path)
           THEN refresh_inner_enter(t, id, r.path)
           ELSE /\ posts' = [k \in DOMAIN posts \cap {IndexId} |-> posts[k]]
                /\ Return(t, Result(IF r.ok \/ r.kind # "NotFound"
                                     THEN "InvalidData" ELSE "NotFound",
                                     IF r.ok THEN "validate" ELSE "canonicalize", None))
                /\ UNCHANGED <<index_updated, index_metadata, rss_base>>

\* PostDb::refresh from its call to the first await of refresh_inner; log
\* holds the accesses of the running operation so far
refresh_enter(t, id, log) ==
    LET r == get_unvalidated_post_path(disk, id)
    IN  /\ fslog' = [fslog EXCEPT ![t] = log \cup {<<"canonicalize", id>>}]
        /\ IF r.ok
           THEN IF validate_post_path(id, r.path)
                THEN refresh_inner_enter(t, id, r.path)
                ELSE /\ Return(t, Result("InvalidData", "validate", None))
                     /\ UNCHANGED dbVars
           ELSE IF r.kind = "NotFound"
                THEN /\ posts' = Remove(posts, id)
                     /\ Return(t, Result("NotFound", "canonicalize", None))
                     /\ UNCHANGED <<index_updated, index_metadata, rss_base>>
                ELSE /\ Return(t, Result("InvalidData", "canonicalize", None))
                     /\ UNCHANGED dbVars

\* File::open(&post_file), db.rs:274
refresh_inner_open(t) ==
    LET id == loc[t].id
    IN  /\ pc[t] = "open"
        /\ Log(t, "open", id)
        /\ IF IsFile(disk, loc[t].path)
           THEN /\ pc' = [pc EXCEPT ![t] = "metadata"]
                /\ UNCHANGED <<stk, loc, res, lockVars, dbVars>>
           ELSE /\ posts' = Remove(posts, id)
                /\ Return(t, Result("NotFound", "open", None))
                /\ UNCHANGED <<index_updated, index_metadata, rss_base>>
        /\ UNCHANGED <<envVars, ncalls, cfgVars, call>>

\* file.metadata().await?.modified()?, db.rs:285, and the test after it
refresh_inner_metadata(t) ==
    LET id == loc[t].id
        file_modified_time == disk[loc[t].path].mtime
    IN  /\ pc[t] = "metadata"
        /\ Log(t, "metadata", id)
        /\ IF not_changed(loc[t].updated, file_modified_time)
           THEN /\ posts' = [posts EXCEPT ![id].updated = now]
                /\ Return(t, Result("Ok", "bumped", Some(file_modified_time)))
                /\ UNCHANGED <<index_updated, index_metadata, rss_base>>
           ELSE /\ pc' = [pc EXCEPT ![t] = "read"]
                /\ loc' = [loc EXCEPT ![t].seen = Some(file_modified_time)]
                /\ UNCHANGED <<stk, res, lockVars, dbVars>>
        /\ UNCHANGED <<envVars, ncalls, cfgVars, call>>

\* file.read_to_string(&mut buffer), db.rs:480 and db.rs:501
PostEntry_read(t) ==
    /\ pc[t] = "read"
    /\ Log(t, "read", loc[t].id)
    /\ pc' = [pc EXCEPT ![t] = "metadata2"]
    /\ loc' = [loc EXCEPT ![t].buf = disk[loc[t].path].content]
    /\ UNCHANGED <<envVars, ncalls, cfgVars, call, stk, res, lockVars, dbVars>>

\* a parse_index that leaves the channel base as it is
parse_index_keeping_base(entry, meta) ==
    /\ index_updated' = Max(entry.last_modified, index_updated)
    /\ index_metadata' = meta
    /\ posts' = Insert(posts, IndexId, entry)
    /\ UNCHANGED rss_base

\* PostDb::parse_index after PostEntry::parse_index returned (entry, meta)
parse_index(entry, meta) ==
    /\ index_updated' = Max(entry.last_modified, index_updated)
    /\ index_metadata' = meta
    /\ posts' = Insert(posts, IndexId, entry)
    /\ rss_base' = make_rss_base(meta, Max(entry.last_modified, index_updated),
                                 ttl, now)

\* a parse_page that, for a post it already holds, stores the new body and
\* keeps the rest of the entry
parse_page_body_only(id, entry) ==
    /\ posts' = IF id \in DOMAIN posts
                THEN [posts EXCEPT ![id].body = entry.body]
                ELSE Insert(posts, id, entry)
    /\ UNCHANGED <<index_updated, index_metadata, rss_base>>

\* a parse_page that, for a post it already holds, keeps the metadata it
\* has and stores the rest of the new entry
parse_page_keeping_metadata(id, entry) ==
    /\ posts' = IF id \in DOMAIN posts
                THEN Insert(posts, id, [entry EXCEPT !.metadata = posts[id].metadata])
                ELSE Insert(posts, id, entry)
    /\ UNCHANGED <<index_updated, index_metadata, rss_base>>

\* a parse_page that rebuilds the channel base as parse_index does
parse_page_rebuilding_base(id, entry) ==
    /\ posts' = Insert(posts, id, entry)
    /\ rss_base' = make_rss_base(index_metadata, index_updated, ttl, now)
    /\ UNCHANGED <<index_updated, index_metadata>>

\* PostDb::parse_page after PostEntry::parse returned entry
parse_page(id, entry) ==
    /\ posts' = Insert(posts, id, entry)
    /\ UNCHANGED <<index_updated, index_metadata, rss_base>>

\* a parse step that drops the entry when the document does not parse, as
\* the not-found paths do
refresh_inner_parse_evicting(t) ==
    LET id == loc[t].id
        last_modified == disk[loc[t].path].mtime
        entry == PostEntry_parse(loc[t].buf, last_modified, now, loc[t].path)
    IN  /\ pc[t] = "metadata2"
        /\ Log(t, "metadata2", id)
        /\ IF parses(id, loc[t].buf)
           THEN /\ IF id = IndexId
                   THEN parse_index(entry, IndexMetadataOf(loc[t].buf))
                   ELSE parse_page(id, entry)
                /\ Return(t, Result("Ok", "parsed", loc[t].seen))
           ELSE /\ posts' = Remove(posts, id)
                /\ index_metadata' = IndexMetadataDefault
                /\ Return(t, Result("InvalidData", "parse", loc[t].seen))
                /\ UNCHANGED <<index_updated, rss_base>>
        /\ UNCHANGED <<envVars, ncalls, cfgVars, call>>

\* The rest of PostEntry::parse / parse_index from its file.metadata() on
\* (db.rs:482, db.rs:503), and parse_page / parse_index with its result.
refresh_inner_parse(t) ==
    LET id == loc[t].id
        last_modified == disk[loc[t].path].mtime
        entry == PostEntry_parse(loc[t].buf, last_modified, now, loc[t].path)
    IN  /\ pc[t] = "metadata2"
        /\ Log(t, "metadata2", id)
        /\ IF parses(id, loc[t].buf)
           THEN /\ IF id = IndexId
                   THEN parse_index(entry, IndexMetadataOf(loc[t].buf))
                   ELSE parse_page(id, entry)
                /\ Return(t, Result("Ok", "parsed", loc[t].seen))
           ELSE /\ Return(t, Result("InvalidData", "parse", loc[t].seen))
                /\ UNCHANGED dbVars
        /\ UNCHANGED <<envVars, ncalls, cfgVars, call>>

\* refresh called from the directory scan, db.rs:177
refresh_nested(t) ==
    /\ pc[t] = "canon"
    /\ refresh_enter(t, loc[t].id, fslog[t])
    /\ UNCHANGED <<envVars, ncalls, cfgVars, call>>

-----------------------------------------------------------------------------
(* PostDb::refresh_index *)

\* The names fs::read_dir(posts_dir) lists.
Listing(d) ==
    {Last(p) : p \in {q \in DOMAIN d : Front(q) = PostsDir /\ d[q].kind # "absent"}}

\* db.rs:160: is a whole-directory scan due?
scan_due(allow_search_all) ==
    allow_search_all /\ index_updated + ttl <= now

\* The first filesystem access of refresh_index(allow_search_all).
refresh_index_entry(allow_search_all) ==
    IF scan_due(allow_search_all) THEN "read_dir" ELSE "canon_index"

\* fs::read_dir(&self.posts_dir), db.rs:161
refresh_index_read_dir(t) ==
    /\ pc[t] = "read_dir"
    /\ Log(t, "read_dir", <<>>)
    /\ pc' = [pc EXCEPT ![t] = "scan_next"]
    /\ loc' = [loc EXCEPT ![t].todo = Listing(disk)]
    /\ UNCHANGED <<envVars, ncalls, cfgVars, call, stk, res, lockVars, dbVars>>

is_markdown(name) == NameExtension(name) = Some(MdExt)

is_dotted(name) == name # <<>> /\ name[1] = "."

\* a loop that passes over no entry for its name
skipped_by_name_never(ent) == FALSE

\* db.rs:170: the entries the loop passes over for their name
skipped_by_name(ent) == is_dotted(ent) \/ ~is_markdown(ent)

\* a loop that refreshes the cached ids too
contains_key_never(ps, id) == FALSE

\* self.posts.contains_key(id), db.rs:176
contains_key(ps, id) == id \in DOMAIN ps

\* One turn of the loop over the directory entries, db.rs:162-183: the
\* entries come in no particular order.
refresh_index_next_entry(t) ==
    /\ pc[t] = "scan_next"
    /\ Log(t, "next_entry", <<>>)
    /\ IF loc[t].todo = {}
       THEN /\ index_updated' = now
            /\ pc' = [pc EXCEPT ![t] = "canon_index"]
            /\ UNCHANGED <<stk, loc, posts, index_metadata, rss_base>>
       ELSE \E ent \in loc[t].todo :
              LET id == NameStem(ent)
                  skip == skipped_by_name(ent) \/ contains_key(posts, id)
              IN  /\ pc' = [pc EXCEPT ![t] = IF skip THEN "scan_next" ELSE "canon"]
                  /\ stk' = [stk EXCEPT ![t] =
                               IF skip THEN @ ELSE <<Frame("scan", <<>>)>> \o @]
                  /\ loc' = [loc EXCEPT ![t] =
                               [@ EXCEPT !.todo = @ \ {ent},
                                         !.id = IF skip THEN <<>> ELSE id]]
                  /\ UNCHANGED dbVars
    /\ UNCHANGED <<envVars, ncalls, cfgVars, call, res, lockVars>>

\* dunce::canonicalize(posts_dir.join("../index.md")), db.rs:186
IndexPath == PathJoin(PostsDir, <<".",".","/","i","n","d","e","x",".","m","d">>)

refresh_index_canonicalize(t) ==
    LET r == canonicalize(disk, IndexPath)
    IN  /\ pc[t] = "canon_index"
        /\ Log(t, "canonicalize", IndexId)
        /\ IF r.ok
           THEN refresh_inner_enter(t, IndexId, r.path)
           ELSE /\ Return(t, Result(r.kind, "canonicalize", None))
                /\ UNCHANGED dbVars
        /\ UNCHANGED <<envVars, ncalls, cfgVars, call>>

-----------------------------------------------------------------------------
(* The caller of Spec: one task that calls PostDb's operations in turn *)

Driver == CHOOSE t \in Tasks : \A u \in Tasks : t <= u

\* The operation started, with the world as it is at the call: the clock,
\* the entry of id, what the id's path resolves to and, for refresh_index,
\* the site metadata and the feed channel base.
NewCall(op, id, allow) ==
    [op |-> op, id |-> id, allow |-> allow, t0 |-> now,
     entry0 |-> EntryOpt(posts, id),
     canon0 |-> IF op = "refresh" THEN get_unvalidated_post_path(disk, id)
                ELSE canonicalize(disk, IndexPath),
     site0 |-> IF op = "refresh_index" THEN <<index_metadata, rss_base>> ELSE <<>>,
     args |-> <<>>]

\* db.refresh(id): the call and its canonicalize
CallRefresh(id) ==
    /\ pc[Driver] = "idle"
    /\ ncalls < MaxCalls
    /\ ncalls' = ncalls + 1
    /\ call' = [call EXCEPT ![Driver] = NewCall("refresh", id, FALSE)]
    /\ refresh_enter(Driver, id, {})
    /\ UNCHANGED <<envVars, cfgVars>>

\* db.refresh_index(allow_search_all): the call, up to its first await
CallRefreshIndex(allow_search_all) ==
    /\ pc[Driver] = "idle"
    /\ ncalls < MaxCalls
    /\ ncalls' = ncalls + 1
    /\ call' = [call EXCEPT ![Driver] = NewCall("refresh_index", IndexId, allow_search_all)]
    /\ fslog' = [fslog EXCEPT ![Driver] = {}]
    /\ pc' = [pc EXCEPT ![Driver] = refresh_index_entry(allow_search_all)]
    /\ UNCHANGED <<envVars, cfgVars, stk, loc, res, lockVars, dbVars>>

-----------------------------------------------------------------------------
(* Server::handle: the request handlers, tasks that share the Server      *)
(* behind a tokio RwLock                                                   *)

\* a lock that lets a writer in beside the readers
write_granted_beside_readers == writer = 0

\* RwLock::write is granted when nobody holds the lock.
write_granted == writer = 0 /\ readers = {}

\* RwLock::read is granted when no writer holds the lock.
read_granted == writer = 0

\* str::replace('.', ""), serve.rs:162
RemoveDots(s) == SelectSeq(s, LAMBDA c : c # ".")

\* The third part of the request path, as the handler of /p/ takes its id
\* from it: the request paths are /p/a and /p/a.
PostSegments == {<<"a">>, <<"a", ".">>}

\* hyper runs Server::handle for each request on a task of its own; the
\* tasks are alike, and a new request goes to the first one that is free.
accepts(t) == pc[t] = "idle" /\ \A u \in Tasks : u < t => pc[u] # "idle"

\* GET / , /rss or /archive with the given headers: up to
\* server.write().await, serve.rs:131-133
handle_index_request(t, route, headers) ==
    /\ accepts(t)
    /\ ncalls < MaxCalls
    /\ ncalls' = ncalls + 1
    /\ pc' = [pc EXCEPT ![t] = "wlock"]
    /\ stk' = [stk EXCEPT ![t] =
                 <<RequestFrame(route, <<>>, Request(route, <<>>, headers, FALSE))>>]
    /\ res' = [res EXCEPT ![t] = NoRes]
    /\ call' = [call EXCEPT ![t] = NoCall]
    /\ UNCHANGED <<envVars, cfgVars, loc, fslog, lockVars, dbVars>>

\* GET / without the headers the handlers read
handle_index(t) == handle_index_request(t, "index", NoHeaders)

\* Server::is_stupid_bot answered, serve.rs:154-158
BotsResponse == Response("200", "bots", NoResponseHeaders, <<"bots.txt">>)

\* GET /p/<segment> with the given headers: the answer to a bot, or up to
\* server.write().await, serve.rs:153-163
handle_post_request(t, segment, headers, bot) ==
    LET id == RemoveDots(segment)
        req == Request("post", id, headers, bot)
    IN  /\ accepts(t)
        /\ ncalls < MaxCalls
        /\ ncalls' = ncalls + 1
        /\ pc' = [pc EXCEPT ![t] = IF bot THEN "idle" ELSE "wlock"]
        /\ stk' = [stk EXCEPT ![t] =
                     IF bot THEN <<>> ELSE <<RequestFrame("post_index", id, req)>>]
        /\ res' = [res EXCEPT ![t] =
                     IF bot THEN [BotsResponse EXCEPT !.req = req] ELSE NoRes]
        /\ call' = [call EXCEPT ![t] = NoCall]
        /\ UNCHANGED <<envVars, cfgVars, loc, fslog, lockVars, dbVars>>

\* GET /p/<segment> of a browser without the headers the handlers read
handle_post(t, segment) == handle_post_request(t, segment, NoHeaders, FALSE)

\* an id that is all of the request path behind "/p/"
PostSegment_rest(uri) == SubSeq(uri, 4, Len(uri))

\* req_uri.split('/').nth(2).unwrap_or(""), serve.rs:161
PostSegment(uri) ==
    IF Len(SplitSlash(uri, 1, <<>>)) >= 3 THEN SplitSlash(uri, 1, <<>>)[3] ELSE <<>>

\* GET <uri> of a browser, for a request path that starts with "/p/"
handle_post_path(t, uri) == handle_post(t, PostSegment(uri))

\* GET /random: up to server.read().await, serve.rs:183-184
handle_random(t) ==
    /\ accepts(t)
    /\ ncalls < MaxCalls
    /\ ncalls' = ncalls + 1
    /\ pc' = [pc EXCEPT ![t] = "rlock"]
    /\ stk' = [stk EXCEPT ![t] = <<Frame("random", <<>>)>>]
    /\ res' = [res EXCEPT ![t] = NoRes]
    /\ call' = [call EXCEPT ![t] = NoCall]
    /\ UNCHANGED <<envVars, cfgVars, loc, fslog, lockVars, dbVars>>

\* GET /public/<subpath>: up to server.read().await, serve.rs:185-186
handle_public(t, subpath, headers) ==
    /\ accepts(t)
    /\ ncalls < MaxCalls
    /\ ncalls' = ncalls + 1
    /\ pc' = [pc EXCEPT ![t] = "rlock"]
    /\ stk' = [stk EXCEPT ![t] =
                 <<RequestFrame("public", subpath,
                                Request("public", subpath, headers, FALSE))>>]
    /\ res' = [res EXCEPT ![t] = NoRes]
    /\ call' = [call EXCEPT ![t] = NoCall]
    /\ UNCHANGED <<envVars, cfgVars, loc, fslog, lockVars, dbVars>>

\* server.write().await is granted, and refresh_index runs to its first
\* await: refresh_index(true) at serve.rs:136, refresh_index(false) at
\* serve.rs:165
server_write(t) ==
    LET allow_search_all == Head(stk[t]).fn \in IndexRoutes
    IN  /\ pc[t] = "wlock"
        /\ write_granted
        /\ writer' = t
        /\ call' = [call EXCEPT ![t] = NewCall("refresh_index", IndexId, allow_search_all)]
        /\ fslog' = [fslog EXCEPT ![t] = {}]
        /\ pc' = [pc EXCEPT ![t] = refresh_index_entry(allow_search_all)]
        /\ UNCHANGED <<envVars, ncalls, cfgVars, stk, loc, res, readers, dbVars>>

\* server.db.refresh(&id) of the /p/ handler, serve.rs:169-173, to the
\* first await of refresh
handle_post_refresh(t) ==
    LET id == Head(stk[t]).id
    IN  /\ pc[t] = "call_refresh"
        /\ call' = [call EXCEPT ![t] = NewCall("refresh", id, FALSE)]
        /\ refresh_enter(t, id, {})
        /\ UNCHANGED <<envVars, ncalls, cfgVars>>

\* server.read().await is granted, serve.rs:144-148, 178, 184
server_read(t) ==
    /\ pc[t] = "rlock"
    /\ read_granted
    /\ readers' = readers \cup {t}
    /\ pc' = [pc EXCEPT ![t] = "render"]
    /\ UNCHANGED <<envVars, ncalls, cfgVars, call, stk, loc, res, fslog, writer, dbVars>>

\* Server::index with the content of the index entry
Server_index(headers, content) ==
    IF is_cache_valid(headers, index_updated)
    THEN {Response("304", "index", NoResponseHeaders, <<>>)}
    ELSE {Response("200", "index",
                   ResponseHeaders(Some(MaxAge(FALSE, MaxAgeStatic)),
                                   Some(to_rfc2822(content.last_modified)), None, None),
                   <<content.body>>)}

\* Server::archive
Server_archive(headers, content) ==
    {Response("200", "archive",
              ResponseHeaders(Some(MaxAge(FALSE, MaxAgeStatic)),
                              Some(to_rfc2822(index_updated)), None, None),
              <<content.metadata.title>>)}

\* a post handler that tests the time of the last index update, as the
\* index and feed handlers do
Server_post_index_updated(headers, post) ==
    IF is_cache_valid(headers, index_updated)
    THEN {Response("304", "post", NoResponseHeaders, <<>>)}
    ELSE {Response("200", "post",
                   ResponseHeaders(Some(MaxAge(FALSE, ttl)),
                                   Some(to_rfc2822(post.last_modified)), None, None),
                   <<post.body>>)}

\* Server::post with the content of the post
Server_post(headers, post) ==
    IF is_cache_valid(headers, post.last_modified)
    THEN {Response("304", "post", NoResponseHeaders, <<>>)}
    ELSE {Response("200", "post",
                   ResponseHeaders(Some(MaxAge(FALSE, ttl)),
                                   Some(to_rfc2822(post.last_modified)), None, None),
                   <<post.body>>)}

\* Server::rss
Server_rss(headers) ==
    IF is_cache_valid(headers, index_updated)
    THEN {Response("304", "rss", NoResponseHeaders, <<>>)}
    ELSE LET deltas_supported == includes_feed(headers)
             since == IF deltas_supported THEN if_modified_since(headers) ELSE None
             include_content ==
                 CASE rss_content = "never" -> FALSE
                   [] rss_content = "always" -> TRUE
                   [] rss_content = "supports-deltas" -> deltas_supported
         IN  {Response("200", "rss",
                       ResponseHeaders(Some(MaxAge(TRUE, ttl)),
                                       Some(to_rfc2822(index_updated)), None,
                                       Some("A-IM, If-Modified-Since")),
                       items) :
                items \in get_rss(posts, since, include_content, RssMaxItems)}

StartsWith(seg, prefix) ==
    Len(seg) >= Len(prefix) /\ SubSeq(seg, 1, Len(prefix)) = prefix

EndsWith(seg, suffix) ==
    Len(seg) >= Len(suffix) /\ SubSeq(seg, Len(seg) - Len(suffix) + 1, Len(seg)) = suffix

\* is_suspicious of Server::public, over the segments Path::iter yields
is_suspicious(path) ==
    \E i \in 1..Len(path) :
        \/ StartsWith(path[i], <<".">>)
        \/ EndsWith(path[i], <<".","p","e","m">>)
        \/ StartsWith(path[i], IdRsaName)

\* path.has_any_symlinks() of the path Server::public joined: is_symlink
\* of the path as written, then of the parents Path::parent yields, which
\* are the path's components without the last
public_has_any_symlinks(d, base, subpath) ==
    \/ is_symlink_raw(d, base, SplitSlash(subpath, 1, <<>>))
    \/ /\ Components(subpath) # <<>>
       /\ has_any_symlinks(d, base \o Front(Components(subpath)))

\* Server::not_found
NotFound(via) == Response("404", via, NoResponseHeaders, <<"not found">>)

\* Server::public for the text after /public/; the files of public/ stay
\* as they are while it runs. A directory opens and has a modification
\* time, and fails to be read.
Server_public(d, headers, subpath) ==
    LET base == IF HasRoot(subpath) THEN <<>> ELSE PublicDir
        path == PathJoin(PublicDir, subpath)
        file == Lookup(d, base, SplitSlash(subpath, 1, <<>>), Cardinality(DOMAIN d),
                       FALSE)
        post_last_modified ==
            IF IsFile(d, file.path) THEN d[file.path].mtime ELSE UnixEpoch
    IN  IF is_suspicious(path) THEN {NotFound("public")}
        ELSE IF public_has_any_symlinks(d, base, subpath) THEN {NotFound("public")}
        ELSE IF ~file.ok
             THEN IF file.kind = "NotFound" THEN {NotFound("public")}
                  ELSE {Response("500", "public", NoResponseHeaders, <<>>)}
        ELSE IF is_cache_valid(headers, post_last_modified)
             THEN {Response("304", "public", NoResponseHeaders, <<>>)}
        ELSE IF ~IsFile(d, file.path)
             THEN {Response("500", "public", NoResponseHeaders, <<>>)}
        ELSE {Response("200", "public",
                       ResponseHeaders(Some(MaxAge(FALSE, MaxAgeStatic)),
                                       Some(to_rfc2822(post_last_modified)), None, None),
                       <<d[file.path].content>>)}

\* Server::random: an Err when the db holds no post, which Server::handle
\* answers with 500 (serve.rs:195-203)
Server_random ==
    IF get_random_ids(posts) = {}
    THEN {Response("500", "random", NoResponseHeaders, <<>>)}
    ELSE {Response("302", "random",
                   ResponseHeaders(None, Some(to_rfc2822(posts[id].last_modified)),
                                   Some(id), None),
                   <<posts[id].body>>) : id \in get_random_ids(posts)}

\* The page is rendered from the db under the read guard, and the guard is
\* dropped, and with it what the handler kept of its refresh.
render(t) ==
    LET fn == Head(stk[t]).fn
        req == Head(stk[t]).req
        content == loc[t].content[1]
        responses == CASE fn = "index" -> Server_index(req.headers, content)
                       [] fn = "archive" -> Server_archive(req.headers, content)
                       [] fn = "rss" -> Server_rss(req.headers)
                       [] fn = "post" -> Server_post(req.headers, content)
                       [] fn = "random" -> Server_random
                       [] fn = "public" -> Server_public(disk, req.headers, req.id)
    IN  /\ pc[t] = "render"
        /\ readers' = readers \ {t}
        /\ pc' = [pc EXCEPT ![t] = "idle"]
        /\ stk' = [stk EXCEPT ![t] = <<>>]
        /\ \E response \in responses :
             res' = [res EXCEPT ![t] = [response EXCEPT !.req = req]]
        /\ call' = [call EXCEPT ![t] = NoCall]
        /\ fslog' = [fslog EXCEPT ![t] = {}]
        /\ loc' = [loc EXCEPT ![t] = NoLoc]
        /\ UNCHANGED <<envVars, ncalls, cfgVars, writer, dbVars>>

-----------------------------------------------------------------------------
(* The environment: the clock and the blog's editor *)

Tick ==
    /\ now < MaxTime
    /\ now' = now + 1
    /\ UNCHANGED <<disk, nedits, ncalls, cfgVars, dbVars, pc, stk, loc, res, call,
                   fslog, lockVars>>

\* A file some task holds open
IsOpen(f) ==
    \E t \in Tasks : pc[t] \in {"metadata", "read", "metadata2"} /\ loc[t].path = f

\* The editor writes a file (in place when it exists); the modification
\* time it leaves is any time (a restored or copied file keeps its own).
WriteFile(f, c, m) ==
    /\ nedits < MaxEdits
    /\ disk[f] # FileOf(c, m)
    /\ nedits' = nedits + 1
    /\ disk' = [disk EXCEPT ![f] = FileOf(c, m)]
    /\ UNCHANGED <<now, ncalls, cfgVars, dbVars, pc, stk, loc, res, call, fslog,
                   lockVars>>

\* The editor deletes a file. A file deleted while open stays readable
\* through the open handle, so such a run equals one that deletes it after
\* the handle's last read: the deletion waits for the handle.
DeleteFile(f) ==
    /\ nedits < MaxEdits
    /\ disk[f].kind = "file"
    /\ ~IsOpen(f)
    /\ nedits' = nedits + 1
    /\ disk' = [disk EXCEPT ![f] = Absent]
    /\ UNCHANGED <<now, ncalls, cfgVars, dbVars, pc, stk, loc, res, call, fslog,
                   lockVars>>

Edit(files) ==
    \/ \E f \in files : \E c \in Contents(f), m \in 0..MaxTime : WriteFile(f, c, m)
    \/ \E f \in files : DeleteFile(f)

\* An editor that saves files in place, stamped with the time of the save:
\* the newest revision of the document, or one that does not parse
Save(files) ==
    \/ \E f \in files : \E c \in Contents(f) \ {Good(r) : r \in 1..MaxRev - 1} :
         WriteFile(f, c, now)
    \/ \E f \in files : DeleteFile(f)

-----------------------------------------------------------------------------
(* Spec: PostDb under one caller, which refreshes posts and, without the  *)
(* directory scan, the index.                                            *)

\* The blog as the server finds it: files older than the server's start.
InitDisk ==
    [f \in Nodes |-> IF f = LinkLn THEN LinkTo(FileAB) ELSE FileOf(Good(1), UnixEpoch)]

\* The server as PostDb::new and Serve::run leave it, over the blog d with
\* a cache_ttl among ttls
InitWith(d, ttls, rss_contents, calls, caches) ==
    /\ now = 0
    /\ disk = d
    /\ nedits = 0
    /\ ncalls = 0
    /\ posts \in caches
    /\ ttl \in ttls
    /\ rss_content \in rss_contents
    /\ index_updated = UnixEpoch
    /\ index_metadata = IndexMetadataDefault
    /\ rss_base = RssBaseDefault
    /\ pc = [t \in Tasks |-> "idle"]
    /\ stk = [t \in Tasks |-> <<>>]
    /\ loc = [t \in Tasks |-> NoLoc]
    /\ res = [t \in Tasks |-> NoRes]
    /\ call \in calls
    /\ fslog = [t \in Tasks |-> {}]
    /\ writer = 0
    /\ readers = {}

EmptyCache == [k \in {} |-> 0]

\* RssContent, and the default of --rss-content
RssContents == {"never", "supports-deltas", "always"}

RssContentDefault == "supports-deltas"

InitOn(d, ttls) ==
    InitWith(d, ttls, {RssContentDefault}, {[t \in Tasks |-> NoCall]}, {EmptyCache})

Init == InitOn(InitDisk, 0..MaxTtl)

Next ==
    \/ \E id \in PostIds : CallRefresh(id)
    \/ CallRefreshIndex(FALSE)
    \/ refresh_index_canonicalize(Driver)
    \/ refresh_inner_open(Driver)
    \/ refresh_inner_metadata(Driver)
    \/ PostEntry_read(Driver)
    \/ refresh_inner_parse(Driver)
    \/ Tick
    \/ Edit({IndexFile, FileA})

Spec == Init /\ [][Next]_vars

(* SpecPath: the path validator under one caller; the editor rewrites and *)
(* deletes the file with the underscore in its name.                      *)

NextPath ==
    \/ \E id \in PathIds : CallRefresh(id)
    \/ refresh_inner_open(Driver)
    \/ refresh_inner_metadata(Driver)
    \/ PostEntry_read(Driver)
    \/ refresh_inner_parse(Driver)
    \/ Tick
    \/ Edit({FileAB})

SpecPath == Init /\ [][NextPath]_vars

(* SpecServe: two request handlers on a blog of one post, with no cache   *)
(* TTL or the longest one.                                                *)

InitServe ==
    InitOn([InitDisk EXCEPT ![FileAB] = Absent, ![LinkLn] = Absent], {0, MaxTtl})

NextServe ==
    \/ \E t \in Tasks : handle_index(t)
    \/ \E t \in Tasks : \E segment \in PostSegments : handle_post(t, segment)
    \/ \E t \in Tasks : handle_random(t)
    \/ \E t \in Tasks : server_write(t)
    \/ \E t \in Tasks : handle_post_refresh(t)
    \/ \E t \in Tasks : server_read(t)
    \/ \E t \in Tasks : render(t)
    \/ \E t \in Tasks : refresh_index_read_dir(t)
    \/ \E t \in Tasks : refresh_index_next_entry(t)
    \/ \E t \in Tasks : refresh_nested(t)
    \/ \E t \in Tasks : refresh_index_canonicalize(t)
    \/ \E t \in Tasks : refresh_inner_open(t)
    \/ \E t \in Tasks : refresh_inner_metadata(t)
    \/ \E t \in Tasks : PostEntry_read(t)
    \/ \E t \in Tasks : refresh_inner_parse(t)
    \/ Tick
    \/ Save({FileA})

SpecServe == InitServe /\ [][NextServe]_vars

(* SpecHttp: one handler at a time, over the blog of SpecServe, answering *)
(* requests that carry If-Modified-Since, Cache-Control and A-IM headers, *)
(* under each setting of --rss-content.                                   *)

\* The dates clients send: the age of the blog's files, the instants of
\* the clock, and a date in the future
HttpStamps == {UnixEpoch} \cup (0..MaxTime) \cup {MaxTime + OneHour}

HttpDates == {None} \cup {Some(Rfc2822(T)) : T \in HttpStamps}

\* Headers of conditional requests
ConditionalHeaders ==
    {HeaderMap(ims, cc, None) : ims \in HttpDates, cc \in {None, Some(NoCacheToken)}}

\* Headers of feed readers, with and without delta support
FeedHeaders ==
    {HeaderMap(ims, None, aim) : ims \in HttpDates, aim \in {None, Some(FeedToken)}}

\* /p/a, whose file the blog has, and /p/zz, whose file it has not
HttpSegments == {IdA, IdZ}

\* The clients of /p/: browsers with conditional headers, and a crawler
\* whose User-Agent is_stupid_bot matches
PostClients ==
    {<<headers, FALSE>> : headers \in ConditionalHeaders} \cup {<<NoHeaders, TRUE>>}

InitHttp ==
    InitWith([InitDisk EXCEPT ![FileAB] = Absent, ![LinkLn] = Absent],
             {0, MaxTtl}, RssContents, {[t \in Tasks |-> NoCall]}, {EmptyCache})

NextHttp ==
    \/ \E headers \in ConditionalHeaders : handle_index_request(Driver, "index", headers)
    \/ \E headers \in FeedHeaders : handle_index_request(Driver, "rss", headers)
    \/ handle_index_request(Driver, "archive", NoHeaders)
    \/ \E segment \in HttpSegments, client \in PostClients :
         handle_post_request(Driver, segment, client[1], client[2])
    \/ handle_random(Driver)
    \/ server_write(Driver)
    \/ handle_post_refresh(Driver)
    \/ server_read(Driver)
    \/ render(Driver)
    \/ refresh_index_read_dir(Driver)
    \/ refresh_index_next_entry(Driver)
    \/ refresh_nested(Driver)
    \/ refresh_index_canonicalize(Driver)
    \/ refresh_inner_open(Driver)
    \/ refresh_inner_metadata(Driver)
    \/ PostEntry_read(Driver)
    \/ refresh_inner_parse(Driver)
    \/ Tick
    \/ Save({FileA})

SpecHttp == InitHttp /\ [][NextHttp]_vars

(* SpecPost: the /p/ route alone, under the default --rss-content.        *)

InitPost ==
    InitWith([InitDisk EXCEPT ![FileAB] = Absent, ![LinkLn] = Absent],
             {0, MaxTtl}, {RssContentDefault}, {[t \in Tasks |-> NoCall]},
             {EmptyCache})

NextPost ==
    \/ \E segment \in HttpSegments, client \in PostClients :
         handle_post_request(Driver, segment, client[1], client[2])
    \/ server_write(Driver)
    \/ handle_post_refresh(Driver)
    \/ server_read(Driver)
    \/ render(Driver)
    \/ refresh_index_canonicalize(Driver)
    \/ refresh_inner_open(Driver)
    \/ refresh_inner_metadata(Driver)
    \/ PostEntry_read(Driver)
    \/ refresh_inner_parse(Driver)
    \/ Tick
    \/ Save({FileA})

SpecPost == InitPost /\ [][NextPost]_vars

(* SpecPublic: the /public/ route, over a public directory with a        *)
(* stylesheet, a dotfile, private keys and symbolic links.                *)

PublicDisk ==
    [f \in Nodes \cup PublicNodes |->
        IF f = Append(PublicDir, LinkName) THEN LinkTo(Append(PublicDir, StyleName))
        ELSE IF f = Append(PublicDir, DirLinkName) THEN LinkTo(PostsDir)
        ELSE IF f \in {FileAB, LinkLn} THEN Absent
        ELSE FileOf(Good(1), UnixEpoch)]

Slash == <<"/">>

\* The texts after /public/ that clients ask for
PublicSubpaths ==
    {StyleName, EnvName, PemName, IdRsaName, LinkName,
     <<"n","o">>,
     DotDot \o Slash \o <<"i","n","d","e","x",".","m","d">>,
     Dot \o Slash \o StyleName,
     StyleName \o Slash,
     DirLinkName \o Slash \o <<"a",".","m","d">>,
     DirLinkName \o Slash,
     DirLinkName \o Slash \o Dot,
     LinkName \o Slash}

InitPublic ==
    InitWith(PublicDisk, {MaxTtl}, {RssContentDefault}, {[t \in Tasks |-> NoCall]},
             {EmptyCache})

NextPublic ==
    \/ \E subpath \in PublicSubpaths, headers \in ConditionalHeaders :
         handle_public(Driver, subpath, headers)
    \/ server_read(Driver)
    \/ render(Driver)

SpecPublic == InitPublic /\ [][NextPublic]_vars

(* SpecScan: refresh_index with and without the directory scan, under one *)
(* caller, over a posts directory that also holds a text file and a       *)
(* dotfile, and a second post that may not parse.                         *)

NoteTxt == Append(PostsDir, <<"n",".","t","x","t">>)

HiddenMd == Append(PostsDir, <<".","h",".","m","d">>)

\* index.md was last saved shortly before the server started
IndexSaved == UnixEpoch + 2

ScanDisks ==
    {[f \in Nodes \cup {NoteTxt, HiddenMd} |->
        IF f = LinkLn THEN Absent
        ELSE IF f = FileAB THEN ab
        ELSE IF f = IndexFile THEN FileOf(Good(1), IndexSaved)
        ELSE FileOf(Good(1), UnixEpoch)] :
     ab \in {Absent, FileOf(Good(1), UnixEpoch), FileOf(NoFrontMatter, UnixEpoch)}}

InitScan ==
    \E d \in ScanDisks : InitOn(d, 0..MaxTtl)

NextScan ==
    \/ \E allow_search_all \in BOOLEAN : CallRefreshIndex(allow_search_all)
    \/ CallRefresh(IdA)
    \/ refresh_index_read_dir(Driver)
    \/ refresh_index_next_entry(Driver)
    \/ refresh_nested(Driver)
    \/ refresh_index_canonicalize(Driver)
    \/ refresh_inner_open(Driver)
    \/ refresh_inner_metadata(Driver)
    \/ PostEntry_read(Driver)
    \/ refresh_inner_parse(Driver)
    \/ Tick

SpecScan == InitScan /\ [][NextScan]_vars

(* SpecCache: the cache under every route that reads or refreshes it, one *)
(* request at a time, while the editor saves and deletes the post and     *)
(* the index.                                                             *)

NextCache ==
    \/ handle_index(Driver)
    \/ \E segment \in HttpSegments : handle_post(Driver, segment)
    \/ handle_random(Driver)
    \/ server_write(Driver)
    \/ handle_post_refresh(Driver)
    \/ server_read(Driver)
    \/ render(Driver)
    \/ refresh_index_read_dir(Driver)
    \/ refresh_index_next_entry(Driver)
    \/ refresh_nested(Driver)
    \/ refresh_index_canonicalize(Driver)
    \/ refresh_inner_open(Driver)
    \/ refresh_inner_metadata(Driver)
    \/ PostEntry_read(Driver)
    \/ refresh_inner_parse(Driver)
    \/ Tick
    \/ Save({FileA, IndexFile})

SpecCache == InitPost /\ [][NextCache]_vars

(* SpecUri: the ids that reach the cache, from the request paths of the   *)
(* /p/ route and from the scan of GET /.                                  *)

PostPrefix == <<"/","p","/">>

\* Request paths under /p/: a post, the reserved id, a path into the posts
\* directory, a parent directory, a nested path, no id at all
PostUris ==
    {PostPrefix \o rest :
       rest \in {IdA, IndexId, <<"/">> \o BlogName \o <<"/">> \o PostsName \o <<"/">> \o IdA,
                 IdUp, IdA \o <<"/">> \o IdAB, <<>>}}

NextUri ==
    \/ handle_index(Driver)
    \/ \E uri \in PostUris : handle_post_path(Driver, uri)
    \/ server_write(Driver)
    \/ handle_post_refresh(Driver)
    \/ server_read(Driver)
    \/ render(Driver)
    \/ refresh_index_read_dir(Driver)
    \/ refresh_index_next_entry(Driver)
    \/ refresh_nested(Driver)
    \/ refresh_index_canonicalize(Driver)
    \/ refresh_inner_open(Driver)
    \/ refresh_inner_metadata(Driver)
    \/ PostEntry_read(Driver)
    \/ refresh_inner_parse(Driver)
    \/ Tick

SpecUri == Init /\ [][NextUri]_vars

(* SpecSite: refresh_index and refresh under one caller, while the editor *)
(* saves index.md with one url or another, or with none.                  *)

\* https://b, x:/b, mailto:a and b.org
UrlTexts ==
    {SiteUrlText, <<"x",":","/","b">>, <<"m","a","i","l","t","o",":","a">>,
     <<"b",".","o","r","g">>}

SiteContents ==
    {Site(MaxRev, url) : url \in {None} \cup {Some(text) : text \in UrlTexts}}

SaveSite == \E c \in SiteContents : WriteFile(IndexFile, c, now)

NextSite ==
    \/ CallRefreshIndex(FALSE)
    \/ CallRefresh(IdA)
    \/ refresh_index_canonicalize(Driver)
    \/ refresh_inner_open(Driver)
    \/ refresh_inner_metadata(Driver)
    \/ PostEntry_read(Driver)
    \/ refresh_inner_parse(Driver)
    \/ Tick
    \/ SaveSite

SpecSite == Init /\ [][NextSite]_vars

(* SpecEval: the conditional-request evaluators, applied to the headers   *)
(* of a request and the timestamp of the resource it asks for.            *)

MaxStamp == 3

\* Instants, in seconds: a few in a row, and the same an hour later
Stamps == (0..MaxStamp) \cup {OneHour + k : k \in 0..MaxStamp}

IfModifiedSinceValues ==
    {None, Some(OpaqueBytes), Some(Iso8601(0))} \cup {Some(Rfc2822(T)) : T \in Stamps}

MaxAge0Text == <<"m", "a", "x", "-", "a", "g", "e", "=", "0">>

NoStoreText == <<"n", "o", "-", "s", "t", "o", "r", "e">>

CommaSpace == <<",", " ">>

\* Cache-Control values of requests
CacheControlValues ==
    {None, Some(NoCacheToken), Some(MaxAge0Text), Some(NoStoreText),
     Some(MaxAge0Text \o CommaSpace \o NoCacheToken),
     Some(NoCacheToken \o CommaSpace \o NoStoreText)}

EvalArgs ==
    {[headers |-> HeaderMap(ims, cc, None), current |-> c] :
        ims \in IfModifiedSinceValues, cc \in CacheControlValues, c \in Stamps}

EvalCall(args) == [NoCall EXCEPT !.op = "evaluate", !.args = args]

InitEval ==
    InitWith(InitDisk, {MaxTtl}, {RssContentDefault},
             {[t \in Tasks |-> IF t = Driver THEN EvalCall(a) ELSE NoCall] :
                a \in EvalArgs},
             {EmptyCache})

Verdict(not_modified) == IF not_modified THEN "not-modified" ELSE "modified"

\* req.headers().is_cache_valid(&timestamp)
apply_is_cache_valid(t) ==
    /\ call[t].op = "evaluate"
    /\ res[t].via # "is_cache_valid"
    /\ res' = [res EXCEPT ![t] =
                 Result(Verdict(is_cache_valid(call[t].args.headers,
                                               call[t].args.current)),
                        "is_cache_valid", None)]
    /\ UNCHANGED <<envVars, ncalls, cfgVars, dbVars, pc, stk, loc, call, fslog,
                   lockVars>>

\* cache_valid(&req, &timestamp)
apply_cache_valid(t) ==
    /\ call[t].op = "evaluate"
    /\ res[t].via # "cache_valid"
    /\ res' = [res EXCEPT ![t] =
                 Result(Verdict(cache_valid(call[t].args.headers,
                                            call[t].args.current)),
                        "cache_valid", None)]
    /\ UNCHANGED <<envVars, ncalls, cfgVars, dbVars, pc, stk, loc, call, fslog,
                   lockVars>>

NextEval ==
    \/ apply_is_cache_valid(Driver)
    \/ apply_cache_valid(Driver)

SpecEval == InitEval /\ [][NextEval]_vars

(* SpecFeed: get_rss, applied to caches of up to three posts, with and    *)
(* without creation dates.                                                *)

MaxDate == 3

Dates == 1..MaxDate

\* The posts the cache can hold on this disk
FeedIds == {IdA, IdAB, IdLn}

\* The entry of a post with the creation date created (or none), read from
\* a file last modified at lm
FeedEntry(id, created, lm) ==
    PostEntry_parse(IF created = None THEN Good(1) ELSE Dated(1, created[1]),
                    lm, MaxDate,
                    IF id = IndexId THEN IndexFile
                    ELSE canonicalize(InitDisk, PostPath(id)).path)

FeedShapes == ({None} \cup {Some(T) : T \in Dates}) \X Dates

\* The caches: any of the posts, and the index entry, read from a file
\* newer than every post
FeedCaches ==
    UNION {{[id \in ids \cup {IndexId} |->
               IF id = IndexId THEN FeedEntry(IndexId, None, MaxDate + 1)
               ELSE FeedEntry(id, shape[id][1], shape[id][2])] :
              shape \in [ids -> FeedShapes]} : ids \in SUBSET FeedIds}

FeedArgs ==
    {[since |-> since, include_content |-> ic, max |-> max] :
        since \in {None} \cup {Some(T) : T \in Dates}, ic \in BOOLEAN,
        max \in 1..Cardinality(FeedIds)}

FeedCall(args) == [NoCall EXCEPT !.op = "get_rss", !.args = args]

InitFeed ==
    InitWith(InitDisk, {MaxTtl}, {RssContentDefault},
             {[t \in Tasks |-> IF t = Driver THEN FeedCall(a) ELSE NoCall] :
                a \in FeedArgs},
             FeedCaches)

\* db.get_rss(since, include_content, max)
apply_get_rss(t) ==
    /\ call[t].op = "get_rss"
    /\ res[t].via # "get_rss"
    /\ \E items \in get_rss(posts, call[t].args.since, call[t].args.include_content,
                             call[t].args.max) :
         res' = [res EXCEPT ![t] = Response("Ok", "get_rss", <<>>, items)]
    /\ UNCHANGED <<envVars, ncalls, cfgVars, dbVars, pc, stk, loc, call, fslog,
                   lockVars>>

NextFeed == apply_get_rss(Driver)

SpecFeed == InitFeed /\ [][NextFeed]_vars

-----------------------------------------------------------------------------
(* Properties of PostDb::refresh and PostDb::refresh_index *)

\* The operation task t called has returned; res[t] is what it returned.
Returned(t) == pc[t] = "idle" /\ call[t].op # "none"

RefreshReturned(t) == Returned(t) /\ call[t].op = "refresh"

\* Task t is past the validation of its path, inside refresh_inner.
InRefreshInner(t) == pc[t] \in {"open", "metadata", "read", "metadata2"}

\* The entry of the id the call was about was cached and inside its TTL
\* when the call started.
FreshAtCall(t) ==
    call[t].entry0 # None /\ call[t].entry0[1].updated + ttl > call[t].t0

\* C1: refresh rejects every id that has a character outside [A-Za-z0-9-]:
\* it returns no entry for such an id and caches none under it.
C1_IllFormedIdRejected ==
    \A t \in Tasks :
      (RefreshReturned(t) /\ ~generate_post_accepts(call[t].id))
        => (res[t].status # "Ok" /\ call[t].id \notin DOMAIN posts)

\* C2: every path refresh accepts is canonical, ends in .md and starts with
\* the posts directory; an id that resolves outside the posts directory is
\* rejected with InvalidData and changes nothing; and no entry of a post is
\* made from a file outside the posts directory (the entry of the reserved
\* id "/index" is the one refresh_index makes from <root>/index.md).
C2_AcceptedPathInsidePostsDir ==
    /\ \A t \in Tasks :
         /\ (call[t].op = "refresh" /\ InRefreshInner(t))
              => /\ PathStartsWith(loc[t].path, PostsDir)
                 /\ PathExtension(loc[t].path) = Some(MdExt)
                 /\ \A i \in 1..Len(loc[t].path) : loc[t].path[i] \notin {Dot, DotDot}
                 /\ ~has_any_symlinks(disk, loc[t].path)
         /\ (RefreshReturned(t) /\ call[t].canon0.ok
               /\ ~PathStartsWith(call[t].canon0.path, PostsDir))
              => /\ res[t].status = "InvalidData"
                 /\ EntryOpt(posts, call[t].id) = call[t].entry0
    /\ \A id \in DOMAIN posts \ {IndexId} : PathStartsWith(posts[id].src, PostsDir)

\* C2's case: the id "../index", which resolves to <root>/index.md, was
\* refused by the validator.
C2_Witness ==
    \E t \in Tasks :
      /\ RefreshReturned(t) /\ call[t].id = IdUp
      /\ call[t].canon0 = IoOk(IndexFile)
      /\ res[t] = Result("InvalidData", "validate", None)

\* C3: refresh rejects every id whose path has a symbolic link in it: it
\* returns no entry for such an id and caches none under it.
C3_SymlinkRejected ==
    \A t \in Tasks :
      (RefreshReturned(t) /\ has_any_symlinks(disk, PostPath(call[t].id)))
        => (res[t].status # "Ok" /\ call[t].id \notin DOMAIN posts)

\* C4: for an id with a character outside [A-Za-z0-9-], refresh touches the
\* filesystem not at all.
C4_NoAccessForIllFormedId ==
    \A t \in Tasks :
      (call[t].op = "refresh" /\ ~generate_post_accepts(call[t].id))
        => fslog[t] = {}

\* C5: when the file of id does not exist as refresh(id) is called, the call
\* returns NotFound and the cache holds no entry for id after it, whether or
\* not an entry of id was cached and inside its TTL.
C5_MissingFileEvicted ==
    \A t \in Tasks :
      (RefreshReturned(t) /\ call[t].canon0 = IoErr("NotFound"))
        => (res[t].status = "NotFound" /\ call[t].id \notin DOMAIN posts)

\* C5's case: the file was missing while its entry was inside the TTL.
C5_Witness ==
    \E t \in Tasks :
      /\ RefreshReturned(t) /\ call[t].canon0 = IoErr("NotFound")
      /\ FreshAtCall(t)

\* C6 as the specification states it: with the entry of id cached and
\* inside its TTL, refresh(id) returns that entry unchanged, and opens,
\* stats and reads no file (the resolution of the path is let pass as the
\* one stat the specification allows).
C6_FreshEntryAlwaysReturned ==
    \A t \in Tasks :
      (RefreshReturned(t) /\ FreshAtCall(t))
        => /\ res[t].status = "Ok"
           /\ EntryOpt(posts, call[t].id) = call[t].entry0
           /\ fslog[t] \subseteq {<<"canonicalize", call[t].id>>}

\* C6, amended: with the entry of id cached and inside its TTL, and the
\* path of id still resolving to a file the validator accepts, refresh(id)
\* returns that entry unchanged; its one filesystem access is the
\* resolution of the path: it opens, stats and reads no file.
C6_FreshEntryReturnedUnchanged ==
    \A t \in Tasks :
      (RefreshReturned(t) /\ FreshAtCall(t) /\ call[t].canon0.ok
         /\ validate_post_path(call[t].id, call[t].canon0.path))
        => /\ res[t] = Result("Ok", "cached", None)
           /\ EntryOpt(posts, call[t].id) = call[t].entry0
           /\ fslog[t] = {<<"canonicalize", call[t].id>>}

\* C6's case: a second refresh of a cached post inside its TTL has returned.
C6_Witness ==
    \E t \in Tasks :
      /\ RefreshReturned(t) /\ FreshAtCall(t) /\ call[t].canon0.ok
      /\ res[t].via = "cached"

\* C7: when refresh(id) goes to the file of a cached entry after its TTL and
\* the file's modification time differs from the entry's last_modified, it
\* re-reads and re-parses the file and replaces the entry.
C7_ChangedFileReparsed ==
    \A t \in Tasks :
      (RefreshReturned(t) /\ res[t].status = "Ok" /\ call[t].entry0 # None
         /\ res[t].seen # None /\ res[t].seen[1] # call[t].entry0[1].last_modified)
        => /\ res[t].via = "parsed"
           /\ posts[call[t].id].updated >= call[t].t0

\* C8: when refresh(id) goes to the file of a cached entry after its TTL and
\* the file's modification time is the entry's last_modified, it only sets
\* the entry's last-checked time: it reads and parses nothing.
C8_UnchangedFileOnlyBumped ==
    \A t \in Tasks :
      /\ (call[t].op = "refresh" /\ pc[t] \in {"read", "metadata2"}
            /\ call[t].entry0 # None)
           => loc[t].seen # Some(call[t].entry0[1].last_modified)
      /\ (RefreshReturned(t) /\ res[t].status = "Ok" /\ call[t].entry0 # None
            /\ res[t].seen = Some(call[t].entry0[1].last_modified))
           => /\ res[t].via = "bumped"
              /\ \E u \in call[t].t0..MaxTime :
                   posts[call[t].id] = [call[t].entry0[1] EXCEPT !.updated = u]

\* C9: when the re-parse of a file fails with a data error, the operation
\* returns the error and the entry cached before the call is still there,
\* unchanged; for the index, so are the site metadata and the feed's base.
C9_ParseErrorKeepsEntry ==
    \A t \in Tasks :
      (Returned(t) /\ res[t].via = "parse")
        => /\ res[t].status = "InvalidData"
           /\ EntryOpt(posts, call[t].id) = call[t].entry0
           /\ call[t].op = "refresh_index"
                => <<index_metadata, rss_base>> = call[t].site0

\* C9's case: a cached entry was due, its file had changed and no longer
\* parsed.
C9_Witness ==
    \E t \in Tasks :
      /\ Returned(t) /\ res[t].via = "parse"
      /\ call[t].entry0 # None

\* Task t is inside refresh or refresh_index, at one of their awaits or
\* between the two calls of the /p/ handler.
InRefresh(t) ==
    pc[t] \in {"read_dir", "scan_next", "canon", "canon_index", "call_refresh",
               "open", "metadata", "read", "metadata2"}

\* C10: a handler that is inside refresh or refresh_index holds the write
\* lock from the start of the operation to its end: meanwhile no handler
\* holds a read lock or renders, and no other handler is inside a refresh.
C10_RefreshUnderWriteLock ==
    \A t \in Tasks :
      InRefresh(t)
        => /\ writer = t
           /\ readers = {}
           /\ \A u \in Tasks \ {t} : ~InRefresh(u) /\ pc[u] # "render"

\* C10's case: while one handler is in the file I/O of a refresh, another
\* has asked for the lock and waits for it.
C10_Witness ==
    \E t \in Tasks, u \in Tasks :
      /\ t # u
      /\ InRefreshInner(t)
      /\ pc[u] \in {"wlock", "rlock"}

-----------------------------------------------------------------------------
(* Properties of the request handlers *)

\* The entry the refresh of the lock's writer is about to store: body and
\* metadata of the text it read, the modification time it read after it.
RefreshedEntry(t) ==
    PostEntry_parse(loc[t].buf, disk[loc[t].path].mtime, now, loc[t].path)

\* The entry of id changes in this step, and not only in its `updated`.
Replaced(id) ==
    /\ id \in DOMAIN posts /\ id \in DOMAIN posts'
    /\ [posts'[id] EXCEPT !.updated = 0] # [posts[id] EXCEPT !.updated = 0]

\* Task t holds the content its handler took from the db.
HoldsContent(t) == pc[t] \in {"rlock", "render"} /\ loc[t].content # None

\* C11: a reader sees whole entries. While a task holds the read lock no
\* entry changes; an entry that changes is replaced, body, metadata and
\* last_modified together, by what the one refresh of the writing task
\* read; and the content a handler takes from the db under the write lock
\* is the whole entry as it is then.
C11_ReadersSeeWholeEntries ==
    [][ /\ (readers # {} => posts' = posts)
        /\ \A id \in DOMAIN posts :
              Replaced(id) =>
                /\ writer \in Tasks
                /\ pc[writer] = "metadata2"
                /\ loc[writer].id = id
                /\ posts'[id] = RefreshedEntry(writer)
        /\ \A t \in Tasks :
              (~HoldsContent(t) /\ HoldsContent(t)') =>
                LET c == loc'[t].content[1]
                IN  c = to_post_content(c.id, posts'[c.id])
      ]_vars

\* A post is re-read while a handler still holds the content of the entry
\* before it: the handler renders the old entry, the db holds the new one.
C11_Witness ==
    \E t \in Tasks :
      /\ pc[t] = "render"
      /\ loc[t].content # None
      /\ LET c == loc[t].content[1]
         IN  /\ c.id \in PostIds
             /\ c.id \in DOMAIN posts
             /\ posts[c.id].body # c.body
             /\ posts[c.id].metadata # c.metadata

\* The names of the directives of a Cache-Control value: the items of the
\* comma-separated list, each up to its "=", without the blanks around it.
DirectiveNames(text) ==
    LET items == StrSplit(text, {","}, 1, <<>>)
        name(item) ==
            Head(StrSplit(SelectSeq(item, LAMBDA c : c \notin {" ", "\t"}),
                          {"="}, 1, <<>>))
    IN  {name(items[i]) : i \in 1..Len(items)}

\* What the evaluator is to report for a resource of the given timestamp:
\* not-modified when If-Modified-Since parses to a date T, the timestamp is
\* at most T plus one second, and there is no no-cache directive.
NotModifiedFor(headers, timestamp) ==
    /\ headers.ims # None
    /\ headers.ims[1].fmt = "rfc2822"
    /\ timestamp <= headers.ims[1].secs + OneSecond
    /\ ~(headers.cc # None /\ NoCacheToken \in DirectiveNames(headers.cc[1]))

\* An evaluator was applied to the request and timestamp of task t.
Evaluated(t) ==
    call[t].op = "evaluate" /\ res[t].via \in {"is_cache_valid", "cache_valid"}

\* C12: the evaluators (is_cache_valid, cache_valid) report not-modified
\* exactly when the request has an If-Modified-Since that parses to T, the
\* resource's timestamp is at most T plus one second, and Cache-Control has
\* no no-cache directive; T equal to the resource time gives not-modified
\* (without no-cache), T one hour before it gives modified.
C12_NotModifiedWithinTolerance ==
    \A t \in Tasks :
      Evaluated(t) =>
        LET headers == call[t].args.headers
            current == call[t].args.current
            parseable == headers.ims # None /\ headers.ims[1].fmt = "rfc2822"
            T == headers.ims[1].secs
            no_cache == /\ headers.cc # None
                        /\ NoCacheToken \in DirectiveNames(headers.cc[1])
        IN  /\ res[t].status = "not-modified" <=> NotModifiedFor(headers, current)
            /\ (parseable /\ ~no_cache /\ T = current) => res[t].status = "not-modified"
            /\ (parseable /\ T = current - OneHour) => res[t].status = "modified"
            /\ (~parseable \/ no_cache) => res[t].status = "modified"

\* is_cache_valid reports not-modified for a resource one second newer than
\* the client's date
C12_Witness ==
    \E t \in Tasks :
      /\ Evaluated(t)
      /\ res[t].via = "is_cache_valid"
      /\ res[t].status = "not-modified"
      /\ call[t].args.headers.cc # None
      /\ call[t].args.current = call[t].args.headers.ims[1].secs + OneSecond

\* get_rss has returned to task t; res[t].body is the list of its items.
FeedReturned(t) == call[t].op = "get_rss" /\ res[t].via = "get_rss"

ItemIds(items) == {items[i].link : i \in 1..Len(items)}

\* The ordinary posts published at or after since: all of them when since
\* is absent
PublishedSince(ps, since) ==
    {id \in DOMAIN ps \ {IndexId} : since = None \/ published(ps[id]) >= since[1]}

\* C13: get_rss(since = S) selects exactly the ordinary posts whose
\* published timestamp (creation date if present, else modification time)
\* is at or after S, all ordinary posts when since is absent, and never the
\* index entry. Looked at where the maximum does not truncate the list.
C13_FeedSelectsPublishedSince ==
    \A t \in Tasks :
      (FeedReturned(t) /\ call[t].args.max >= Cardinality(DOMAIN posts \ {IndexId})) =>
        ItemIds(res[t].body) = PublishedSince(posts, call[t].args.since)

\* The posts that pass the filter of get_rss
Filtered(ps, since) ==
    {id \in DOMAIN ps \ {IndexId} : OptionGe(ps[id].metadata.created, since)}

\* C14: the items of get_rss are sorted by published timestamp, latest
\* first, and truncated after sorting: with maximum n the items are the n
\* most recently published of the selected posts (all of them when there
\* are no more than n), so three posts published at T1 < T2 < T3 come as
\* [T3, T2, T1].
C14_FeedSortedThenTruncated ==
    \A t \in Tasks :
      FeedReturned(t) =>
        LET items == res[t].body
            selected == Filtered(posts, call[t].args.since)
            n == call[t].args.max
        IN  /\ \A i, j \in 1..Len(items) :
                  i < j => published(posts[items[i].link]) >= published(posts[items[j].link])
            /\ \A i, j \in 1..Len(items) : i # j => items[i].link # items[j].link
            /\ ItemIds(items) \subseteq selected
            /\ Len(items) = IF Cardinality(selected) < n THEN Cardinality(selected) ELSE n
            /\ \A id \in selected \ ItemIds(items) :
                  \A i \in 1..Len(items) :
                    published(posts[items[i].link]) >= published(posts[id])

\* Three posts published at three different times, a maximum of two: the
\* two latest are returned, the latest first.
C14_Witness ==
    \E t \in Tasks :
      /\ FeedReturned(t)
      /\ call[t].args.since = None
      /\ call[t].args.max = 2
      /\ Cardinality({published(posts[id]) : id \in FeedIds \cap DOMAIN posts}) = 3
      /\ Len(res[t].body) = 2
      /\ published(posts[res[t].body[1].link]) > published(posts[res[t].body[2].link])

\* Task t has answered a request of the route; res[t] is the response.
Answered(t, route) ==
    pc[t] = "idle" /\ res[t].req # <<>> /\ res[t].req.route = route

\* The request asks for incremental feed delivery: A-IM lists feed.
DeclaresFeed(headers) ==
    /\ headers.aim # None
    /\ FeedToken \in DirectiveNames(headers.aim[1])

\* C15: a feed sent for a GET /rss that does not declare support for
\* incremental delivery (no feed token in A-IM) holds every post of the
\* cache, whatever If-Modified-Since says, each with its full content.
C15_PlainFeedIsFull ==
    \A t \in Tasks :
      (Answered(t, "rss") /\ res[t].status = "200"
         /\ rss_content = RssContentDefault
         /\ ~DeclaresFeed(res[t].req.headers)) =>
        /\ ItemIds(res[t].body) = DOMAIN posts \ {IndexId}
        /\ \A i \in 1..Len(res[t].body) :
              res[t].body[i].content = Some(posts[res[t].body[i].link].body)

\* C16: GET /p/<id> is answered 404 when the file of the id is missing or
\* the Path Validator rejects the id.
C16_MissingPostIs404 ==
    \A t \in Tasks :
      (/\ Answered(t, "post")
       /\ ~res[t].req.bot
       /\ call[t].op = "refresh"
       /\ \/ call[t].canon0 = IoErr("NotFound")
          \/ call[t].canon0.ok /\ ~validate_post_path(call[t].id, call[t].canon0.path)) =>
        res[t].status = "404"

\* C17: GET / is answered 304 exactly when the evaluator reports
\* not-modified for the last_modified of the index entry, the time the
\* response's Last-Modified header carries.
C17_IndexConditionalOnLastModified ==
    \A t \in Tasks :
      (Answered(t, "index") /\ res[t].status \in {"200", "304"}) =>
        (res[t].status = "304" <=>
           NotModifiedFor(res[t].req.headers, posts[IndexId].last_modified))

\* The response of task t to GET /p/<id> is the one the conditional headers
\* call for: 304 with an empty body when the evaluator reports not-modified
\* against the entry's last_modified, else 200 with that time as
\* Last-Modified and max-age = TTL in seconds.
PostConforms(t) ==
    LET id == res[t].req.id
        last_modified == IF id \in DOMAIN posts THEN posts[id].last_modified
                         ELSE disk[PostPath(id)].mtime
    IN  IF NotModifiedFor(res[t].req.headers, last_modified)
        THEN res[t].status = "304" /\ res[t].body = <<>>
        ELSE /\ res[t].status = "200"
             /\ res[t].headers.last_modified = Some(Rfc2822(last_modified))
             /\ res[t].headers.cache_control # None
             /\ res[t].headers.cache_control[1].max_age = ttl

\* The post the request of task t asked for exists and was served.
ExistingPostServed(t) ==
    /\ Answered(t, "post")
    /\ res[t].status \in {"200", "304"}
    /\ IsFile(disk, PostPath(res[t].req.id))

\* C18 as stated: every GET /p/<id> for an existing valid post is answered
\* 304 with an empty body exactly when the evaluator reports not-modified
\* against the entry's last_modified, and else 200 with Last-Modified equal
\* to the entry's last_modified and Cache-Control max-age equal to the TTL.
C18_PostConditional ==
    \A t \in Tasks : ExistingPostServed(t) => PostConforms(t)

\* C18: the same, for requests whose User-Agent is none that
\* Server::is_stupid_bot matches.
C18_PostConditionalForBrowsers ==
    \A t \in Tasks : (ExistingPostServed(t) /\ ~res[t].req.bot) => PostConforms(t)

\* A GET /p/a with If-Modified-Since set to a date in the future is
\* answered 304.
C18_Witness ==
    \E t \in Tasks :
      /\ ExistingPostServed(t)
      /\ ~res[t].req.bot
      /\ res[t].req.headers.ims = Some(Rfc2822(MaxTime + OneHour))
      /\ res[t].status = "304"

\* C20: while the posts directory holds a post (the blog's files are as at
\* the server's start), GET /random is answered with a 302 to the page of
\* an ordinary post.
C20_RandomRedirects ==
    \A t \in Tasks :
      (Answered(t, "random") /\ nedits = 0 /\ IsFile(disk, FileA)) =>
        /\ res[t].status = "302"
        /\ res[t].headers.location # None
        /\ res[t].headers.location[1] \in PostIds

\* The '/'-separated pieces of the text after /public/ that name something
Pieces(subpath) ==
    SelectSeq(SplitSlash(subpath, 1, <<>>), LAMBDA piece : piece # <<>>)

\* The path the request names is one the handler must refuse: a piece
\* starts with a dot, ends with .pem or starts with id_rsa, or the path
\* resolves through a symbolic link.
Refusable(d, subpath) ==
    \/ \E i \in 1..Len(Pieces(subpath)) :
         \/ Pieces(subpath)[i][1] = "."
         \/ EndsWith(Pieces(subpath)[i], <<".","p","e","m">>)
         \/ StartsWith(Pieces(subpath)[i], IdRsaName)
    \/ Lookup(d, PublicDir, SplitSlash(subpath, 1, <<>>), Cardinality(DOMAIN d),
              FALSE).kind = "Link"

\* C19: GET /public/<path> is answered 404, never 200 and never with an
\* error, when a component of the path starts with a dot (.. included),
\* ends with .pem or starts with id_rsa, or the path resolves through a
\* symbolic link.
C19_PublicRefusesSuspiciousPaths ==
    \A t \in Tasks :
      (Answered(t, "public") /\ Refusable(disk, res[t].req.id)) =>
        res[t].status = "404"

-----------------------------------------------------------------------------
(* Properties of the cache as a whole *)

\* In this step a refresh of task t, called by the driver or by the scan
\* loop, returns that its id is invalid: the path does not validate, or it
\* does not resolve for a reason other than a missing file.
RejectsId(t) ==
    /\ \/ pc[t] = "canon"
       \/ pc[t] = "idle" /\ ncalls' # ncalls /\ call'[t].op = "refresh"
    /\ pc'[t] = "idle"
    /\ res'[t].status = "InvalidData"
    /\ res'[t].via \in {"validate", "canonicalize"}

\* C21: a refresh that rejects its id as invalid leaves the cache as it
\* was: no entry is added, replaced or evicted, and index_updated, the
\* site metadata and the feed base keep their values.
C21_RejectedRefreshKeepsCache ==
    [][\A t \in Tasks : RejectsId(t) => UNCHANGED dbVars]_vars

\* a refresh has rejected an id while the cache held a post
C21_Witness ==
    \E t \in Tasks :
      /\ RefreshReturned(t)
      /\ res[t].status = "InvalidData"
      /\ res[t].via = "validate"
      /\ DOMAIN posts # {}

\* The refresh_index of task t has returned, after it listed the posts
\* directory
ScanReturned(t) ==
    /\ Returned(t)
    /\ call[t].op = "refresh_index"
    /\ <<"read_dir", <<>> >> \in fslog[t]

\* The ids of the posts in d that a scan can cache: markdown files whose
\* name does not start with a dot and whose front matter parses
Discoverable(d) ==
    {NameStem(Last(f)) :
       f \in {q \in DOMAIN d : /\ Front(q) = PostsDir
                               /\ IsFile(d, q)
                               /\ ~skipped_by_name(Last(q))
                               /\ d[q].content.fm = "ok"}}

\* C22: a file of the posts directory that fails to refresh does not end
\* the scan: when a refresh_index that scanned returns, every post of the
\* directory that parses is cached, and the call did not fail (the index
\* file itself is in order).
C22_ScanSkipsBadFile ==
    \A t \in Tasks :
      ScanReturned(t) =>
        /\ res[t].status = "Ok"
        /\ Discoverable(disk) \subseteq DOMAIN posts

\* In this step task t calls refresh_index
CallsRefreshIndex(t) ==
    pc[t] = "idle" /\ ncalls' # ncalls /\ call'[t].op = "refresh_index"

\* C23: refresh_index(allow_search_all) always refreshes the entry of
\* "/index" from the index file; it lists the posts directory exactly when
\* allow_search_all is true and index_updated lies at least the TTL back;
\* without allow_search_all it lists nothing and adds no post id.
C23_RefreshIndexScansWhenDue ==
    /\ [](\A t \in Tasks :
            (Returned(t) /\ call[t].op = "refresh_index") =>
              /\ <<"canonicalize", IndexId>> \in fslog[t]
              /\ ~call[t].allow => <<"read_dir", <<>> >> \notin fslog[t])
    /\ [][\A t \in Tasks :
            /\ CallsRefreshIndex(t) =>
                  (pc'[t] = "read_dir" <=>
                     (call'[t].allow /\ index_updated + ttl <= now))
            /\ (call[t].op = "refresh_index" /\ ~call[t].allow /\ pc[t] # "idle") =>
                  DOMAIN posts' \subseteq DOMAIN posts \cup {IndexId}]_vars

\* In this step the scan of task t finds the listing exhausted, having
\* refreshed every entry it had to
CompletesScan(t) == pc[t] = "scan_next" /\ loc[t].todo = {}

\* C24: index_updated, the time of the last scan, changes only as a scan
\* completes: it keeps its value through a scan that fails, through a
\* refresh_index that does not scan and through every other step.
C24_ScanStampOnlyAfterListing ==
    [][index_updated' # index_updated => \E t \in Tasks : CompletesScan(t)]_vars

\* Task t is inside the scan of refresh_index: at the listing, in the loop
\* or in a refresh the loop called
InScan(t) ==
    \/ pc[t] \in {"read_dir", "scan_next"}
    \/ stk[t] # <<>> /\ Head(stk[t]).fn = "scan"

\* C25: the scan refreshes only ids that are not cached: no step of it
\* changes or evicts an entry the cache holds.
C25_ScanKeepsCachedEntries ==
    [][\A t \in Tasks :
         InScan(t) =>
           \A id \in DOMAIN posts : id \in DOMAIN posts' /\ posts'[id] = posts[id]]_vars

\* a scan has passed over the file of a cached post, some time after the
\* post was cached, and has cached another post
C25_Witness ==
    \E t \in Tasks :
      /\ pc[t] = "scan_next"
      /\ IdA \in DOMAIN posts
      /\ IdAB \in DOMAIN posts
      /\ posts[IdA].updated < posts[IdAB].updated
      /\ Last(FileA) \notin loc[t].todo

\* In this step the scan loop of task t takes the entry ent off the listing
Takes(t, ent) ==
    /\ pc[t] = "scan_next"
    /\ ent \in loc[t].todo
    /\ loc'[t].todo = loc[t].todo \ {ent}

\* C30: the scan passes over a directory entry that is no .md file or
\* whose name starts with a dot: it goes on to the next entry without a
\* refresh, and no entry of the cache is made from such a file.
C30_ScanSkipsOtherFiles ==
    /\ [](\A id \in DOMAIN posts : ~skipped_by_name(Last(posts[id].src)))
    /\ [][\A t \in Tasks : \A ent \in loc[t].todo :
            (Takes(t, ent) /\ (ent[1] = "." \/ ~EndsWith(ent, <<".","m","d">>))) =>
              /\ pc'[t] = "scan_next"
              /\ posts' = posts
              /\ fslog'[t] = fslog[t] \cup {<<"next_entry", <<>> >>}]_vars

\* a scan has gone through the whole directory, the text file and the
\* dotfile included, and has cached a post
C30_Witness ==
    \E t \in Tasks :
      /\ ScanReturned(t)
      /\ res[t].status = "Ok"
      /\ {Last(NoteTxt), Last(HiddenMd)} \subseteq Listing(disk)
      /\ IdA \in DOMAIN posts

\* Task t is at a step of a refresh that can evict: the resolution of the
\* path, or File::open
AttemptsRefresh(t) == pc[t] \in {"call_refresh", "canon", "open"}

\* Task t is at a step of a refresh that can store: the comparison of the
\* times, or the parse
StoresEntry(t) == pc[t] \in {"metadata", "metadata2"}

\* C26: an entry leaves the cache only in a step of a refresh of its id,
\* taken while the file it was read from is missing; an entry is made or
\* changed only in a step of the refresh algorithm. No other step, and no
\* step of a handler that reads the cache, removes or changes an entry.
C26_EntriesChangeOnlyByRefresh ==
    [][/\ \A id \in DOMAIN posts \ DOMAIN posts' :
            /\ ~IsFile(disk, posts[id].src)
            /\ \E t \in Tasks : AttemptsRefresh(t) /\ writer = t
       /\ \A id \in DOMAIN posts' :
            (id \notin DOMAIN posts \/ posts'[id] # posts[id]) =>
              \E t \in Tasks : StoresEntry(t) /\ writer = t /\ loc[t].id = id]_vars

\* a request for a post whose file was deleted has evicted the entry, and
\* the index entry is still cached
C26_Witness ==
    \E t \in Tasks :
      /\ Answered(t, "post")
      /\ res[t].status = "500"
      /\ call[t].entry0 # None
      /\ call[t].id \notin DOMAIN posts
      /\ IndexId \in DOMAIN posts

\* The body and the metadata of entry come from one text: some revision of
\* a document gives both
FromOneRead(entry) ==
    \E r \in 1..MaxRev :
      /\ entry.body = generate_html(Good(r))
      /\ entry.metadata.title = get_metadata(Good(r)).title

\* C27: in every state, the body and the metadata of each cache entry were
\* parsed from the same read of the file: neither is of an older version
\* of the file than the other.
C27_BodyAndMetadataFromOneRead ==
    \A id \in DOMAIN posts : FromOneRead(posts[id])

\* the entry of a post was parsed again from a later version of its file
C27_Witness ==
    \E t \in Tasks :
      /\ pc[t] = "rlock"
      /\ call[t].op = "refresh"
      /\ call[t].entry0 # None
      /\ call[t].id \in DOMAIN posts
      /\ call[t].entry0[1].body # posts[call[t].id].body

\* Task t is at a step of a refresh of a post: one the /p/ handler or the
\* scan loop called
RefreshesPost(t) ==
    \/ pc[t] \in {"call_refresh", "canon"}
    \/ InRefreshInner(t) /\ loc[t].id # IndexId

\* C28: in every state the only key of the cache that starts with '/' is
\* "/index"; and no step of a refresh of a post replaces or evicts the
\* entry of "/index".
C28_IndexIsTheOnlySlashKey ==
    /\ [](\A id \in DOMAIN posts : (id # <<>> /\ id[1] = "/") => id = IndexId)
    /\ [][\A t \in Tasks :
            (RefreshesPost(t) /\ IndexId \in DOMAIN posts) =>
              (IndexId \in DOMAIN posts' /\ posts'[IndexId] = posts[IndexId])]_vars

\* GET /p//index was answered, and the index and a post are cached
C28_Witness ==
    \E t \in Tasks :
      /\ Answered(t, "post")
      /\ res[t].req.id = <<>>
      /\ IndexId \in DOMAIN posts
      /\ IdA \in DOMAIN posts

\* C29: in every state the url of the site metadata can be a base, the
\* placeholder of IndexMetadata::default before the first parse of the
\* index and a url that deserialize_url accepted after it, so that post_url
\* succeeds for every post of the cache.
C29_SiteUrlIsABase ==
    /\ ~index_metadata.url.cannot_be_a_base
    /\ \/ index_metadata.url = IndexMetadataDefault.url
       \/ \E text \in UrlTexts :
            /\ Url_parse(text).ok
            /\ ~Url_parse(text).url.cannot_be_a_base
            /\ index_metadata.url = Url_parse(text).url
    /\ \A id \in all_posts(posts) : post_url(index_metadata.url, id).ok

\* a refresh_index has refused an index.md whose url parses and cannot be
\* a base, and the site metadata is the one parsed before
C29_Witness ==
    \E t \in Tasks :
      /\ Returned(t)
      /\ call[t].op = "refresh_index"
      /\ res[t].status = "InvalidData"
      /\ UrlField(disk[IndexFile].content) # None
      /\ Url_parse(UrlField(disk[IndexFile].content)[1]).ok
      /\ Url_parse(UrlField(disk[IndexFile].content)[1]).url.cannot_be_a_base
      /\ index_metadata.url.text = SiteUrlText

-----------------------------------------------------------------------------
(* SpecChannel: one handler at a time answers GET /, GET /rss and GET    *)
(* /p/a while the editor saves index.md.                                  *)

NextChannel ==
    \/ handle_index(Driver)
    \/ \E headers \in FeedHeaders : handle_index_request(Driver, "rss", headers)
    \/ handle_post(Driver, IdA)
    \/ server_write(Driver)
    \/ handle_post_refresh(Driver)
    \/ server_read(Driver)
    \/ render(Driver)
    \/ refresh_index_read_dir(Driver)
    \/ refresh_index_next_entry(Driver)
    \/ refresh_nested(Driver)
    \/ refresh_index_canonicalize(Driver)
    \/ refresh_inner_open(Driver)
    \/ refresh_inner_metadata(Driver)
    \/ PostEntry_read(Driver)
    \/ refresh_inner_parse(Driver)
    \/ Tick
    \/ Save({IndexFile})

SpecChannel == InitPost /\ [][NextChannel]_vars

\* The step in which task t's refresh of the index parses index.md
ParsesIndex(t) ==
    /\ pc[t] = "metadata2"
    /\ loc[t].id = IndexId
    /\ parses(IndexId, loc[t].buf)
    /\ pc'[t] # "metadata2"

\* The step in which task t's GET /rss takes the feed from get_rss
BuildsFeed(t) ==
    pc[t] = "render" /\ Head(stk[t]).fn = "rss" /\ pc'[t] = "idle"

\* C31: the channel-level fields of the feed (rss_base) change only in a
\* step that parses index.md successfully; a GET /rss that builds its feed
\* from them leaves them as they were, so the feeds between two parses of
\* the index carry the same channel-level fields.
C31_ChannelChangesOnlyOnIndexParse ==
    [][/\ rss_base' # rss_base => \E t \in Tasks : ParsesIndex(t)
       /\ \A t \in Tasks : BuildsFeed(t) => rss_base' = rss_base]_vars

\* a feed is served from a channel base rebuilt from the saved index.md
C31_Witness ==
    /\ Answered(Driver, "rss")
    /\ res[Driver].status = "200"
    /\ rss_base.title = partial_escape(MaxRev)
    /\ nedits > 0

-----------------------------------------------------------------------------
(* SpecTtl: PostDb::new and make_rss_base, applied to cache TTLs at both  *)
(* ends of the u32 range.                                                 *)

\* The TTLs tried lie within MaxLow of a multiple of 2^16
MaxLow == 361

LowLimbs == (0..MaxLow) \cup ((Word - 1 - MaxLow)..(Word - 1))

HighLimbs == {0, 1, Word - 1}

\* --cache-ttl values: from 0 up, around 2^16, and up to u32::MAX
TtlSeconds == {<<hi, lo>> : hi \in HighLimbs, lo \in LowLimbs}

TtlCall(ttl_seconds) ==
    [NoCall EXCEPT !.op = "make_rss_base", !.args = [ttl_seconds |-> ttl_seconds]]

InitTtl ==
    InitWith(InitDisk, {0}, {RssContentDefault},
             {[t \in Tasks |-> IF t = Driver THEN TtlCall(s) ELSE NoCall] :
                s \in TtlSeconds},
             {EmptyCache})

\* PostDb::new(posts_dir, ttl_seconds) and the ttl make_rss_base gives the
\* channel
apply_make_rss_base(t) ==
    LET made == channel_ttl(Duration_from_secs(as_u64(call[t].args.ttl_seconds)))
    IN  /\ call[t].op = "make_rss_base"
        /\ res[t].via # "make_rss_base"
        /\ res' = [res EXCEPT ![t] =
                     Response(IF made.overflow THEN "overflow" ELSE "Ok",
                              "make_rss_base", <<>>, made.minutes)]
        /\ UNCHANGED <<envVars, ncalls, cfgVars, dbVars, pc, stk, loc, call, fslog,
                       lockVars>>

NextTtl == apply_make_rss_base(Driver)

SpecTtl == InitTtl /\ [][NextTtl]_vars

\* 2^16 = 60 * 1092 + 16, so hi * 2^16 + lo seconds are 1092 * hi whole
\* minutes and 16 * hi + lo seconds
WholeMinutes(s) == 1092 * s[1] + (16 * s[1] + s[2]) \div 60

OddSeconds(s) == (16 * s[1] + s[2]) % 60

\* ceil(seconds / 60)
CeilMinutes(s) == WholeMinutes(s) + (IF OddSeconds(s) > 0 THEN 1 ELSE 0)

ChannelTtlReturned(t) == call[t].op = "make_rss_base" /\ res[t].via = "make_rss_base"

\* C32: for every u32 cache TTL the channel's ttl is max(5, ceil(ttl / 60))
\* minutes, and computing it overflows nowhere.
C32_ChannelTtlIsCeilMinutes ==
    \A t \in Tasks :
        ChannelTtlReturned(t) =>
            /\ res[t].status = "Ok"
            /\ res[t].body[1] = 0 /\ res[t].body[2] = 0
            /\ to_int(res[t].body) = Max(5, CeilMinutes(call[t].args.ttl_seconds))

\* the ttl of the channel for a cache TTL of u32::MAX seconds
C32_Witness ==
    /\ ChannelTtlReturned(Driver)
    /\ call[Driver].args.ttl_seconds = <<Word - 1, Word - 1>>
    /\ to_int(res[Driver].body) = 71582789

-----------------------------------------------------------------------------
(* SpecConverge: Spec with a caller whose refresh, once started, runs to  *)
(* its end: the calls PostDb makes inside refresh are awaited by the       *)
(* caller, and the runtime keeps polling a task that can proceed.         *)

RefreshStep(t) ==
    \/ refresh_index_canonicalize(t)
    \/ refresh_inner_open(t)
    \/ refresh_inner_metadata(t)
    \/ PostEntry_read(t)
    \/ refresh_inner_parse(t)

SpecConverge == Spec /\ WF_vars(RefreshStep(Driver))

\* The file of post a has stopped changing (the editor is done) and holds a
\* post that parses, and task t's refresh of a is past its TTL test and
\* about to open the file.
RefreshesSettledFile(t) ==
    /\ nedits = MaxEdits
    /\ disk[FileA].kind = "file"
    /\ parses(IdA, disk[FileA].content)
    /\ pc[t] = "open"
    /\ loc[t].id = IdA
    /\ loc[t].path = FileA

\* The entry of post a is what parsing the file as it is now gives
HoldsCurrent(id, f) ==
    /\ id \in DOMAIN posts
    /\ posts[id] = PostEntry_parse(disk[f].content, disk[f].mtime, posts[id].updated, f)

-----------------------------------------------------------------------------
\* The versions file f has had in a run in which the editor writes once:
\* the one the server found at its start and the one on disk
Versions(f) == {v \in {InitDisk[f], disk[f]} : v.kind = "file"}

\* entry was parsed from version v of its file and carries v's
\* modification time
ReadFromVersion(entry, v) ==
    /\ entry.body = generate_html(v.content)
    /\ entry.metadata = PostEntry_parse(v.content, v.mtime, 0, entry.src).metadata
    /\ entry.last_modified = v.mtime

\* C34: the last_modified of an entry is the modification time of the
\* version of the file its body and metadata were parsed from, also when
\* the file is rewritten between the read of its text and the read of its
\* modification time.
C34_LastModifiedOfTheVersionRead ==
    \A id \in DOMAIN posts : \E v \in Versions(posts[id].src) :
        ReadFromVersion(posts[id], v)

-----------------------------------------------------------------------------
(* SpecAlias: the scan of SpecScan over a posts directory that holds a.md *)
(* and a.x.md, two posts with different texts, and no symbolic link.      *)

FileAX == Append(PostsDir, <<"a",".","x",".","m","d">>)

IdAX == <<"a",".","x">>

AliasDisk ==
    [f \in Nodes \cup {FileAX} |->
        IF f \in {LinkLn, FileAB} THEN Absent
        ELSE IF f = FileAX THEN FileOf(Good(MaxRev), UnixEpoch)
        ELSE FileOf(Good(1), UnixEpoch)]

InitAlias == InitOn(AliasDisk, 0..MaxTtl)

SpecAlias == InitAlias /\ [][NextScan]_vars

\* <posts>/<id>.md, the name spelled out
FileNamed(id) == Append(PostsDir, id \o <<".">> \o MdExt)

\* C35: the entry cached under an id other than the index was parsed from
\* the file <posts>/<id>.md: neither the scan's derivation of the id from a
\* file name nor refresh's construction of the path stores under an id the
\* content of another file.
C35_EntryIsOfItsOwnFile ==
    \A id \in DOMAIN posts \ {IndexId} :
        /\ posts[id].src = FileNamed(id)
        /\ posts[id].body = generate_html(disk[FileNamed(id)].content)

-----------------------------------------------------------------------------
(* SpecRace: two connections ask for GET / while the editor saves         *)
(* index.md; the cache TTL is 0.                                          *)

InitRace ==
    InitWith([InitDisk EXCEPT ![FileAB] = Absent, ![LinkLn] = Absent],
             {0}, {RssContentDefault}, {[t \in Tasks |-> NoCall]}, {EmptyCache})

NextRace ==
    \/ \E t \in Tasks : handle_index(t)
    \/ \E t \in Tasks : server_write(t)
    \/ \E t \in Tasks : server_read(t)
    \/ \E t \in Tasks : render(t)
    \/ \E t \in Tasks : refresh_index_read_dir(t)
    \/ \E t \in Tasks : refresh_index_next_entry(t)
    \/ \E t \in Tasks : refresh_nested(t)
    \/ \E t \in Tasks : refresh_index_canonicalize(t)
    \/ \E t \in Tasks : refresh_inner_open(t)
    \/ \E t \in Tasks : refresh_inner_metadata(t)
    \/ \E t \in Tasks : PostEntry_read(t)
    \/ \E t \in Tasks : refresh_inner_parse(t)
    \/ Tick
    \/ Save({IndexFile})

SpecRace == InitRace /\ [][NextRace]_vars

\* Task t is in Server::index, which builds the page from the content it
\* is handed (serve.rs:290, 308) and from the site's url and title and the
\* list of posts it reads from the db (serve.rs:284-300)
RendersIndex(t) == pc[t] = "render" /\ Head(stk[t]).fn = "index"

\* C36: the response to GET / is built from one state of the cache: the
\* index content it shows is the index entry of the cache that its site
\* title, site url and list of posts are read from, also when the refresh
\* of another request runs at the same time.
C36_IndexPageOfOneCacheState ==
    \A t \in Tasks :
        RendersIndex(t) =>
            /\ IndexId \in DOMAIN posts
            /\ loc[t].content = Some(to_post_content(IndexId, posts[IndexId]))
            /\ loc[t].content[1].metadata.title = index_metadata.title

-----------------------------------------------------------------------------
(* SpecLock: two connections send GET / and GET /p/<id> at any time; the  *)
(* clock and the files stand still, which the lock does not look at.      *)
(* SpecLockFair adds the scheduling of the runtime: a task that can take  *)
(* its next step is polled again, and the RwLock wakes its waiters.       *)

InitLock ==
    InitWith([InitDisk EXCEPT ![FileAB] = Absent, ![LinkLn] = Absent],
             {0}, {RssContentDefault}, {[t \in Tasks |-> NoCall]}, {EmptyCache})

\* The steps of a handler after the request arrived
HandlerStep(t) ==
    \/ server_write(t)
    \/ handle_post_refresh(t)
    \/ server_read(t)
    \/ render(t)
    \/ refresh_index_read_dir(t)
    \/ refresh_index_next_entry(t)
    \/ refresh_nested(t)
    \/ refresh_index_canonicalize(t)
    \/ refresh_inner_open(t)
    \/ refresh_inner_metadata(t)
    \/ PostEntry_read(t)
    \/ refresh_inner_parse(t)

NextLock ==
    \/ \E t \in Tasks : handle_index(t)
    \/ \E t \in Tasks : \E segment \in HttpSegments : handle_post(t, segment)
    \/ \E t \in Tasks : HandlerStep(t)

SpecLock == InitLock /\ [][NextLock]_vars

SpecLockFair == SpecLock /\ \A t \in Tasks : WF_vars(HandlerStep(t))

\* Task t waits for the lock
AwaitsLock(t) == pc[t] \in {"wlock", "rlock"}

\* Task t holds a guard of the lock
HoldsGuard(t) == writer = t \/ t \in readers

\* C37: the lock protocol is free of deadlock. No handler waits for the
\* lock while it holds a guard of it (the write guard is released before
\* the read lock is requested), and under fair scheduling every request
\* that arrived is answered.
C37_EveryRequestIsAnswered ==
    /\ [](\A t \in Tasks : AwaitsLock(t) => ~HoldsGuard(t))
    /\ \A t \in Tasks : (pc[t] # "idle") ~> (pc[t] = "idle" /\ res[t] # NoRes)

\* a handler waits for the read lock while the other holds the write lock
C37_Witness ==
    \E t \in Tasks :
        /\ pc[t] = "rlock"
        /\ writer \in Tasks \ {t}

-----------------------------------------------------------------------------
(* SpecDiscover: SpecScan with a caller that keeps asking for the index   *)
(* with the scan allowed (GET /, /rss and /archive keep arriving) and     *)
(* whose refresh_index, once started, runs to its end.                    *)

\* The steps of refresh_index other than the call of refresh from the loop
ScanStep(t) ==
    \/ refresh_index_read_dir(t)
    \/ refresh_index_next_entry(t)
    \/ RefreshStep(t)

\* refresh_nested(t) is enabled exactly while pc[t] = "canon" and leaves
\* that label, so its weak fairness is spelled out as: t is not at "canon"
\* for ever.
SpecDiscover ==
    /\ SpecScan
    /\ WF_vars(CallRefreshIndex(TRUE))
    /\ WF_vars(ScanStep(Driver))
    /\ []<>(pc[Driver] # "canon")

\* Task t starts a scan of the posts directory: the TTL has passed since
\* the last one and a request for /, /rss or /archive arrived
StartsScan(t) == pc[t] = "read_dir"

-----------------------------------------------------------------------------
(* SpecStale: the listing routes alone. One caller asks for the index     *)
(* with the scan allowed, never for a post by its id, while the editor    *)
(* saves or deletes posts/a.md. SpecStaleFair adds that the requests keep *)
(* arriving and that a refresh_index, once started, runs to its end.      *)

NextStale ==
    \/ CallRefreshIndex(TRUE)
    \/ refresh_index_read_dir(Driver)
    \/ refresh_index_next_entry(Driver)
    \/ refresh_nested(Driver)
    \/ refresh_index_canonicalize(Driver)
    \/ refresh_inner_open(Driver)
    \/ refresh_inner_metadata(Driver)
    \/ PostEntry_read(Driver)
    \/ refresh_inner_parse(Driver)
    \/ Tick
    \/ Save({FileA})

SpecStale == InitPost /\ [][NextStale]_vars

\* the weak fairness of refresh_nested is spelled out as in SpecDiscover
SpecStaleFair ==
    /\ SpecStale
    /\ WF_vars(CallRefreshIndex(TRUE))
    /\ WF_vars(ScanStep(Driver))
    /\ []<>(pc[Driver] # "canon")

\* The editor is done with the file f of a cached post id, which it deleted
\* or left as a post that parses, and task t starts a scan: the TTL since
\* the last scan has passed
ScansAfterEdit(t, id, f) ==
    /\ nedits = MaxEdits
    /\ disk[f].kind = "absent" \/ parses(id, disk[f].content)
    /\ id \in DOMAIN posts
    /\ pc[t] = "read_dir"

\* What the listings show of post id is what its file f holds now
ListsCurrent(id, f) ==
    IF disk[f].kind = "absent" THEN id \notin DOMAIN posts ELSE HoldsCurrent(id, f)

-----------------------------------------------------------------------------
\* The entry of the index, the site metadata and the channel base say the
\* same of the site
SiteAgrees ==
    /\ posts[IndexId].metadata.title = index_metadata.title
    /\ rss_base.title = partial_escape(index_metadata.title)

\* The entry of the index appears or changes in more than its updated time
IndexEntryChanges ==
    /\ IndexId \in DOMAIN posts'
    /\ \/ IndexId \notin DOMAIN posts
       \/ [posts'[IndexId] EXCEPT !.updated = 0] # [posts[IndexId] EXCEPT !.updated = 0]

\* C40: the entry of the index, the site metadata and the channel base of
\* the feed are written together, in one step of the task that holds the
\* write lock: a step that changes one of them is the step of the lock's
\* holder that parses index.md and sets all three, and in every state in
\* which the cache holds the entry of the index, the entry's metadata agree
\* with the site metadata and with the title of the channel.
C40_SiteDataWrittenTogether ==
    /\ [](IndexId \in DOMAIN posts => SiteAgrees)
    /\ [][(IndexEntryChanges \/ index_metadata' # index_metadata \/ rss_base' # rss_base)
            => /\ writer \in Tasks
               /\ ParsesIndex(writer)
               /\ SiteAgrees']_vars

\* a reader holds the lock over the site data parsed from the index.md the
\* editor saved
C40_Witness ==
    /\ readers # {}
    /\ IndexId \in DOMAIN posts
    /\ index_metadata.title = MaxRev
    /\ nedits > 0

=============================================================================
